---- MODULE Spec2Model ----
(***************************************************************************)
(* Model of the judge server's priority task scheduler (utils/queue.js):   *)
(* the binary heap PriorityQueue, the Task records and the TaskQueue       *)
(* worker pool.  JavaScript runs every synchronous call to completion, so  *)
(* each public call (addTask, setConcurrency, registerHandler) and each    *)
(* promise callback (the continuation of executeTask after the awaited     *)
(* handler settles, the .finally callback of process) is one action.       *)
(***************************************************************************)
EXTENDS Integers, Sequences, FiniteSets, TLC

\* ---- bounds of the model ------------------------------------------------
MaxTasks == 2          \* tasks submitted under Spec
PoolTasks == 4         \* tasks submitted under SpecPool
OrderTasks == 3        \* tasks submitted under SpecOrder
FifoTasks == 4         \* tasks submitted under SpecFifo
MaxTime == 1           \* last millisecond the clock reaches
MaxConcurrency == 3    \* largest worker cap requested
RetentionTasks == 5    \* tasks submitted under SpecRetention
KeepLimit == 2         \* finished tasks the retention sweep keeps (1000 in
                       \* the program, scaled to the tasks submitted)
MaxPuts == 2           \* calls of CacheManager.set
CacheMaxTime == 4      \* last instant the clock reaches under SpecCache
CACHE_TTL == 2         \* life of a cache item (5 minutes in the program,
                       \* scaled to the instants the clock reaches)
SweepPeriod == 1       \* instants between two firings of the cleanup timer
                       \* under SpecSweep (60 s in the program, scaled)
SweepMaxTime == 4      \* last instant the clock reaches under SpecSweep
HandlerPuts == 1       \* uploads while the handlers run
HandlerMaxTime == 3    \* last instant the clock reaches while handlers run
JudgeRuns == 1         \* judge invocations under SpecJudge
RunRuns == 2           \* run invocations under SpecRun
ScratchRuns == 3       \* handler invocations under SpecScratch
CompileRuns == 2       \* compile invocations under SpecCompile
ServerTasks == 2       \* tasks submitted under SpecServer
RouteTasks == 1        \* tasks submitted under SpecTtl, SpecVerdicts, SpecRoutes
LiveTasks == 5         \* task objects alive at one time under SpecLive
LiveConcurrency == 2   \* largest worker cap requested under SpecLive
LiveThrows == 1        \* first tasks whose handler may throw under SpecLive
ScoreUnit == 2         \* a normalizedScore of 1, scores counted in halves

\* ---- values -------------------------------------------------------------
\* null of the result / error fields, and of the timestamps
Null == "NULL"
NoTime == -1

\* priorities the clients submit (higher runs first)
Priorities == {0, 5, 10}
PoolPriorities == {0, 10}
\* addTask(type, data) without a priority takes the default
DefaultPriority == {0}

\* task types submitted; only RegisteredTypes ever get a handler
Types == {"judge", "unknown"}
RegisteredTypes == {"judge"}

\* opaque payload handed to the handler
DataValues == {"payload"}

PENDING == "pending"
RUNNING == "running"
COMPLETED == "completed"
FAILED == "failed"

\* what an awaited handler can do: resolve with a value (an object, or
\* undefined/null) or reject with a thrown value (an Error, or any value)
Verdicts == {"verdict"}
ReturnValues == Verdicts \cup {Null}
Errors == {[isError |-> TRUE, message |-> "not found or expired"]}
ThrownValues == Errors \cup {[isError |-> FALSE, message |-> Null]}

\* arguments of setConcurrency: what Number.parseInt makes of them
ConcurrencyInputs == [nan : {FALSE}, n : 0..MaxConcurrency] \cup {[nan |-> TRUE, n |-> 0]}

VARIABLES
  heap,           \* PriorityQueue.heap: sequence of task ids
  tasks,          \* every Task object created, id -> record of its fields
  runningTasks,   \* TaskQueue.runningTasks, keys in insertion order
  activeWorkers,  \* TaskQueue.activeWorkers
  concurrency,    \* TaskQueue.concurrency
  handlers,       \* TaskQueue.handlers: the types that have a handler
  now,            \* Date.now()
  pc,             \* id -> position of the task's promise chain
  statusLog,      \* id -> every value assigned to task.status, in order
  dispatched,     \* the dequeues made by the last call of process()
  invoked,        \* id -> number of handler(task.data) calls
  outcome,        \* id -> what the awaited handler settled with
  registry,       \* TaskQueue.tasks: the ids the Map taskId -> Task holds
  cache,          \* CacheManager.cache: cache id -> CacheItem
  files,          \* the files under CACHE_DIR: path -> content
  putLog,         \* every call of CacheManager.set: the id drawn, the data
  ret,            \* what the last CacheManager call returned and did
  swept,          \* the instant the cleanup interval timer last fired
  runs,           \* the handler invocations in flight: number -> position
  tmp,            \* the directories that exist under /tmp
  done,           \* what the handler invocation that finished last did
  started,        \* the number of handler invocations made
  reply           \* the HTTP response sent last

cacheVars == <<cache, files, putLog, ret, swept>>

handlerVars == <<runs, tmp, done, started, reply>>

vars == <<heap, tasks, runningTasks, activeWorkers, concurrency, handlers,
          now, pc, statusLog, dispatched, invoked, outcome, registry,
          cache, files, putLog, ret, swept, runs, tmp, done, started, reply>>

Ids == DOMAIN tasks

\* cache item types uploaded, and file contents
CacheTypes == {"binary"}
Contents == {"bytesA", "bytesB"}

\* writeFileSync succeeds, or throws (disk full, directory gone)
WriteOutcomes == {TRUE, FALSE}

\* the cache's two periods as the program writes them, in milliseconds
CACHE_TTL_MS == 5 * 60 * 1000
CLEANUP_INTERVAL_MS == 60 * 1000

\* no handler invocation finished yet
NoResult == [status |-> -1, code |-> -1]
NoScore == -9
NoInvocation ==
  [n |-> 0, kind |-> "none", tempDir |-> <<>>, checkerName |-> <<>>,
   calls |-> <<>>, useTestlib |-> FALSE, outcome |-> "none", status |-> Null,
   run |-> NoResult, score |-> NoScore, checkerMessage |-> FALSE,
   error |-> Null, paths |-> {}, inputCacheId |-> 0, submissionId |-> <<>>]

\* no response sent yet
NoReply ==
  [req |-> [route |-> "none", env |-> "", header |-> "", query |-> ""],
   code |-> 0, body |-> "none"]

\* no CacheManager call made yet
NoCall == [op |-> "none", id |-> 0, value |-> Null, bytes |-> Null, io |-> <<>>]

\* ---- Task ----------------------------------------------------------------
Task(type, data, priority, clock) ==
  [type |-> type, data |-> data, priority |-> priority, status |-> PENDING,
   result |-> Null, error |-> Null, createdAt |-> clock,
   startedAt |-> NoTime, completedAt |-> NoTime]

\* ---- PriorityQueue -------------------------------------------------------
\* compare with the priority difference taken the wrong way round
compareAscending(T, a, b) ==
  IF T[a].priority # T[b].priority
    THEN T[a].priority - T[b].priority
    ELSE T[a].createdAt - T[b].createdAt

compare(T, a, b) ==
  IF T[a].priority # T[b].priority
    THEN T[b].priority - T[a].priority
    ELSE T[a].createdAt - T[b].createdAt

Swap(h, i, j) == [h EXCEPT ![i] = h[j], ![j] = h[i]]

\* indices are 1-based here: the parent of i is i \div 2, its children 2i, 2i+1
RECURSIVE siftUp(_, _, _)
siftUp(T, h, index) ==
  IF index > 1
    THEN LET parentIndex == index \div 2 IN
         IF compare(T, h[index], h[parentIndex]) < 0
           THEN siftUp(T, Swap(h, index, parentIndex), parentIndex)
           ELSE h
    ELSE h

RECURSIVE siftDown(_, _, _)
siftDown(T, h, index) ==
  LET length == Len(h)
      left == 2 * index
      right == 2 * index + 1
      s1 == IF left <= length /\ compare(T, h[left], h[index]) < 0
              THEN left ELSE index
      smallest == IF right <= length /\ compare(T, h[right], h[s1]) < 0
                    THEN right ELSE s1
  IN IF smallest # index
       THEN siftDown(T, Swap(h, index, smallest), smallest)
       ELSE h

push(T, h, task) == siftUp(T, Append(h, task), Len(h) + 1)

\* pop that reads the top and leaves it in the heap
popKeepsTop(T, h) == [top |-> h[1], heap |-> h]

\* pop returns the top and the heap that is left
pop(T, h) ==
  LET top == h[1]
      last == h[Len(h)]
      rest == SubSeq(h, 1, Len(h) - 1)
  IN [top |-> top,
      heap |-> IF Len(rest) > 0 THEN siftDown(T, [rest EXCEPT ![1] = last], 1)
                                ELSE rest]

isEmpty(h) == Len(h) = 0

size(h) == Len(h)

Remove(seq, x) == SelectSeq(seq, LAMBDA y : y # x)

Max(a, b) == IF a >= b THEN a ELSE b

Min(a, b) == IF a <= b THEN a ELSE b

\* ---- TaskQueue -----------------------------------------------------------
normalizeConcurrency(value) ==
  IF value.nan \/ value.n < 1 THEN 1 ELSE value.n

\* the scheduler state the synchronous calls work on
Sched(by) ==
  [by |-> by, heap |-> heap, tasks |-> tasks, runningTasks |-> runningTasks,
   activeWorkers |-> activeWorkers, pc |-> pc, statusLog |-> statusLog,
   dispatched |-> <<>>, invoked |-> invoked, outcome |-> outcome]

\* task.status = st
SetStatus(S, id, st) ==
  [S EXCEPT !.tasks[id].status = st,
            !.statusLog[id] = Append(@, st)]

\* the message of the thrown value, whatever it is (no String(error))
errorMessageOfAny(error) == error.message

\* error instanceof Error ? error.message : String(error)
errorMessage(error) ==
  IF error.isError THEN error.message
  ELSE IF error.message = Null THEN "null" ELSE error.message

\* executeTask with the handler lookup outside the try block: a missing
\* handler rejects the promise and the task is left as it is
executeTaskUncaught(S, id, H, clock) ==
  IF S.tasks[id].type \notin H
    THEN [S EXCEPT !.pc[id] = "settled"]
    ELSE [S EXCEPT !.invoked[id] = @ + 1, !.pc[id] = "awaiting"]

\* executeTask up to its first await: a missing handler throws into the
\* catch block at once, otherwise the handler is called and awaited
executeTask(S, id, H, clock) ==
  IF S.tasks[id].type \notin H
    THEN LET F == SetStatus(S, id, FAILED) IN
         [F EXCEPT !.tasks[id].error = "No handler registered",
                   !.tasks[id].completedAt = clock,
                   !.pc[id] = "settled"]
    ELSE [S EXCEPT !.invoked[id] = @ + 1, !.pc[id] = "awaiting"]

\* the loop condition of a scheduler that runs one task at a time
CanDispatchSerial(S, conc) == S.activeWorkers < 1 /\ ~isEmpty(S.heap)

\* the loop condition without the test of the cap
CanDispatchIgnoresCap(S, conc) == ~isEmpty(S.heap)

\* the loop condition with <= for <
CanDispatchInclusive(S, conc) == S.activeWorkers <= conc /\ ~isEmpty(S.heap)

\* the loop condition of process()
CanDispatch(S, conc) == S.activeWorkers < conc /\ ~isEmpty(S.heap)

\* the iteration with executeTask called before the task is marked running
DispatchLateRunning(S, H, clock) ==
  LET r == pop(S.tasks, S.heap)
      id == r.top
      S1 == [S EXCEPT !.heap = r.heap,
                      !.activeWorkers = @ + 1,
                      !.runningTasks = Append(@, id),
                      !.dispatched = Append(@, [id |-> id, by |-> S.by,
                           pending |-> {r.heap[i] : i \in 1..Len(r.heap)}])]
      S2 == executeTask(S1, id, H, clock)
      S3 == SetStatus(S2, id, RUNNING)
  IN [S3 EXCEPT !.tasks[id].startedAt = clock]

\* one iteration of the loop of process()
Dispatch(S, H, clock) ==
  LET r == pop(S.tasks, S.heap)
      id == r.top
      S1 == [S EXCEPT !.heap = r.heap,
                      !.activeWorkers = @ + 1,
                      !.runningTasks = Append(@, id),
                      !.dispatched = Append(@, [id |-> id, by |-> S.by,
                           pending |-> {r.heap[i] : i \in 1..Len(r.heap)}])]
      S2 == SetStatus(S1, id, RUNNING)
      S3 == [S2 EXCEPT !.tasks[id].startedAt = clock]
  IN executeTask(S3, id, H, clock)

RECURSIVE process(_, _, _, _)
process(S, conc, H, clock) ==
  IF CanDispatch(S, conc)
    THEN process(Dispatch(S, H, clock), conc, H, clock)
    ELSE S

\* write a scheduler state back
Commit(S) ==
  /\ heap' = S.heap
  /\ tasks' = S.tasks
  /\ runningTasks' = S.runningTasks
  /\ activeWorkers' = S.activeWorkers
  /\ pc' = S.pc
  /\ statusLog' = S.statusLog
  /\ dispatched' = S.dispatched
  /\ invoked' = S.invoked
  /\ outcome' = S.outcome

\* getTask(taskId): a read of the Map, undefined for an id it does not hold
getTask(R, T, taskId) == IF taskId \in R THEN T[taskId] ELSE Null

Init ==
  /\ heap = <<>>
  /\ tasks = <<>>
  /\ runningTasks = <<>>
  /\ activeWorkers = 0
  /\ concurrency = 1
  /\ handlers = {}
  /\ now = 0
  /\ pc = <<>>
  /\ statusLog = <<>>
  /\ dispatched = <<>>
  /\ invoked = <<>>
  /\ outcome = <<>>
  /\ registry = {}
  /\ cache = <<>>
  /\ files = <<>>
  /\ putLog = <<>>
  /\ ret = NoCall
  /\ swept = 0
  /\ runs = <<>>
  /\ tmp = {}
  /\ done = NoInvocation
  /\ started = 0
  /\ reply = NoReply

registerHandler(type) ==
  /\ handlers' = handlers \cup {type}
  /\ dispatched' = <<>>
  /\ UNCHANGED <<heap, tasks, runningTasks, activeWorkers, concurrency, now,
                 pc, statusLog, invoked, outcome, registry, cacheVars, handlerVars>>

\* addTask that queues the task and does not enter it in the Map
addTaskUnregistered(type, data, priority) ==
  /\ LET id == Len(tasks) + 1
         T == Append(tasks, Task(type, data, priority, now))
         S == [Sched("addTask") EXCEPT
                 !.tasks = T,
                 !.heap = push(T, heap, id),
                 !.pc = Append(pc, "queued"),
                 !.statusLog = Append(statusLog, <<PENDING>>),
                 !.invoked = Append(invoked, 0),
                 !.outcome = Append(outcome, [kind |-> "none", value |-> Null])]
     IN Commit(process(S, concurrency, handlers, now))
  /\ UNCHANGED <<concurrency, handlers, now, registry, cacheVars, handlerVars>>

\* addTask(type, data, priority): the task enters the Map and the queue, and
\* process() is called
addTaskCall(type, data, priority) ==
  /\ LET id == Len(tasks) + 1
         T == Append(tasks, Task(type, data, priority, now))
         S == [Sched("addTask") EXCEPT
                 !.tasks = T,
                 !.heap = push(T, heap, id),
                 !.pc = Append(pc, "queued"),
                 !.statusLog = Append(statusLog, <<PENDING>>),
                 !.invoked = Append(invoked, 0),
                 !.outcome = Append(outcome, [kind |-> "none", value |-> Null])]
     IN /\ registry' = registry \cup {id}
        /\ Commit(process(S, concurrency, handlers, now))
  /\ UNCHANGED <<concurrency, handlers>>

\* addTask with handlers that are not modelled
addTask(type, data, priority) ==
  /\ addTaskCall(type, data, priority)
  /\ UNCHANGED <<now, cacheVars, handlerVars>>

\* addTask once the retention sweep has deleted the task `id` from the Map:
\* the uuid of the new task is fresh, and the model numbers the new Task
\* object with the index the deleted one has left, so that endless
\* submissions stay within finitely many indices
addTaskAgain(id, type, data, priority) ==
  /\ id \in Ids \ registry
  /\ pc[id] = "released"
  /\ LET T == [tasks EXCEPT ![id] = Task(type, data, priority, now)]
         S == [Sched("addTask") EXCEPT
                 !.tasks = T,
                 !.heap = push(T, heap, id),
                 !.pc[id] = "queued",
                 !.statusLog[id] = <<PENDING>>,
                 !.invoked[id] = 0,
                 !.outcome[id] = [kind |-> "none", value |-> Null]]
     IN /\ registry' = registry \cup {id}
        /\ Commit(process(S, concurrency, handlers, now))
  /\ UNCHANGED <<concurrency, handlers, now, cacheVars, handlerVars>>

\* setConcurrency that stores the cap and does not call process()
setConcurrencyNoProcess(value) ==
  LET nextConcurrency == normalizeConcurrency(value) IN
  /\ concurrency' = nextConcurrency
  /\ dispatched' = <<>>
  /\ UNCHANGED <<heap, tasks, runningTasks, activeWorkers, pc, statusLog,
                 invoked, outcome, handlers, now, registry, cacheVars, handlerVars>>

setConcurrency(value) ==
  LET nextConcurrency == normalizeConcurrency(value) IN
  /\ IF nextConcurrency = concurrency
       THEN /\ dispatched' = <<>>
            /\ UNCHANGED <<heap, tasks, runningTasks, activeWorkers,
                           concurrency, pc, statusLog, invoked, outcome>>
       ELSE /\ concurrency' = nextConcurrency
            /\ Commit(process(Sched("setConcurrency"), nextConcurrency,
                              handlers, now))
  /\ UNCHANGED <<handlers, now, registry, cacheVars, handlerVars>>

\* the awaited handler resolves: the rest of the try block of executeTask
HandlerReturns(id, result) ==
  /\ pc[id] = "awaiting"
  /\ LET S == SetStatus(Sched("executeTask"), id, COMPLETED) IN
     Commit([S EXCEPT !.tasks[id].result = result,
                      !.tasks[id].completedAt = now,
                      !.pc[id] = "settled",
                      !.outcome[id] = [kind |-> "returned", value |-> result]])
  /\ UNCHANGED <<concurrency, handlers, now, registry, cacheVars, handlerVars>>

\* the awaited handler rejects: the catch block of executeTask
HandlerThrows(id, error) ==
  /\ pc[id] = "awaiting"
  /\ LET S == SetStatus(Sched("executeTask"), id, FAILED) IN
     Commit([S EXCEPT !.tasks[id].error = errorMessage(error),
                      !.tasks[id].completedAt = now,
                      !.pc[id] = "settled",
                      !.outcome[id] = [kind |-> "threw", value |-> error.message]])
  /\ UNCHANGED <<concurrency, handlers, now, registry, cacheVars, handlerVars>>

\* a .finally callback that frees the slot and does not call process()
FinallyNoProcess(id) ==
  /\ pc[id] = "settled"
  /\ Commit([Sched("finally") EXCEPT !.activeWorkers = Max(0, @ - 1),
                                     !.runningTasks = Remove(@, id),
                                     !.pc[id] = "released"])
  /\ UNCHANGED <<concurrency, handlers, now, registry, cacheVars, handlerVars>>

\* a .finally callback that stamps the task once more
FinallyStamps(id) ==
  /\ pc[id] = "settled"
  /\ LET S == [Sched("finally") EXCEPT !.activeWorkers = Max(0, @ - 1),
                                       !.runningTasks = Remove(@, id),
                                       !.tasks[id].completedAt = now,
                                       !.pc[id] = "released"]
     IN Commit(process(S, concurrency, handlers, now))
  /\ UNCHANGED <<concurrency, handlers, now, registry, cacheVars, handlerVars>>

\* the .finally callback that process() chained to executeTask(task)
finallyCallback(id) ==
  /\ pc[id] = "settled"
  /\ LET S == [Sched("finally") EXCEPT !.activeWorkers = Max(0, @ - 1),
                                       !.runningTasks = Remove(@, id),
                                       !.pc[id] = "released"]
     IN Commit(process(S, concurrency, handlers, now))
  /\ UNCHANGED <<concurrency, handlers, registry>>

\* the .finally callback with handlers that are not modelled
Finally(id) ==
  /\ finallyCallback(id)
  /\ UNCHANGED <<now, cacheVars, handlerVars>>

\* getStatus(): the fields the status route reports of the queue
getStatus ==
  [queueSize |-> size(heap),
   isProcessing |-> activeWorkers > 0,
   runningTasks |-> runningTasks,
   activeWorkers |-> activeWorkers,
   concurrency |-> concurrency,
   totalTasks |-> Cardinality(registry)]

\* the terminal tasks of the Map
completedTasks(R, T) == {id \in R : T[id].status \in {COMPLETED, FAILED}}

\* position with the earliest completion first
rankOldestFirst(T, C, id) ==
  Cardinality({j \in C : \/ T[j].completedAt < T[id].completedAt
                         \/ T[j].completedAt = T[id].completedAt /\ j < id})

\* position of id after completed.sort((a, b) => b.completedAt -
\* a.completedAt): latest completion first; the sort is stable and the Map
\* iterates in insertion order, so ties stay in id order
rank(T, C, id) ==
  Cardinality({j \in C : \/ T[j].completedAt > T[id].completedAt
                         \/ T[j].completedAt = T[id].completedAt /\ j < id})

sortCompleted(T, C) ==
  [k \in 1..Cardinality(C) |-> CHOOSE id \in C : rank(T, C, id) = k - 1]

\* the retention sweep the interval timer calls
cleanup ==
  /\ LET completed == completedTasks(registry, tasks)
         sorted == sortCompleted(tasks, completed)
         toRemove == {sorted[k] : k \in KeepLimit + 1..Len(sorted)}
     IN registry' = IF Cardinality(completed) > KeepLimit
                      THEN registry \ toRemove ELSE registry
  /\ UNCHANGED <<heap, tasks, runningTasks, activeWorkers, concurrency,
                 handlers, now, pc, statusLog, dispatched, invoked, outcome,
                 cacheVars, handlerVars>>

\* the millisecond clock advances
Tick ==
  /\ now < MaxTime
  /\ now' = now + 1
  /\ UNCHANGED <<heap, tasks, runningTasks, activeWorkers, concurrency,
                 handlers, pc, statusLog, dispatched, invoked, outcome,
                 registry, cacheVars, handlerVars>>

\* ---- CacheManager ----------------------------------------------------------
CacheItem(id, type, filePath, clock) ==
  [id |-> id, type |-> type, filePath |-> filePath,
   createdAt |-> clock, expiresAt |-> clock + CACHE_TTL]

\* isExpired that counts the instant expiresAt as expired
isExpiredInclusive(item, clock) == clock >= item.expiresAt

isExpired(item, clock) == clock > item.expiresAt

\* an id generator that hands out the same id again
generateIdFixed(log) == 1

\* uuidv4(): an id no earlier call has drawn
generateId(log) == Len(log) + 1

\* path.join(CACHE_DIR, type, id)
filePathOf(type, id) == <<"judge-cache", type, id>>

existsSync(F, path) == path \in DOMAIN F

Drop(f, x) == [y \in DOMAIN f \ {x} |-> f[y]]

\* the cache state a synchronous call works on
Store == [cache |-> cache, files |-> files, io |-> <<>>]

\* delete(id): the file first, then the Map entry
delete(K, id) ==
  IF id \in DOMAIN K.cache
    THEN LET path == K.cache[id].filePath IN
         IF existsSync(K.files, path)
           THEN [cache |-> Drop(K.cache, id), files |-> Drop(K.files, path),
                 io |-> K.io \o <<"existsSync", "unlinkSync", "Map.delete">>]
           ELSE [cache |-> Drop(K.cache, id), files |-> K.files,
                 io |-> K.io \o <<"existsSync", "Map.delete">>]
    ELSE K

\* get that renews the item it returns
getRenews(K, id, clock) ==
  IF id \notin DOMAIN K.cache
    THEN [value |-> "null", store |-> K]
  ELSE IF isExpired(K.cache[id], clock)
    THEN [value |-> "null", store |-> delete(K, id)]
  ELSE IF ~existsSync(K.files, K.cache[id].filePath)
    THEN [value |-> "null",
          store |-> delete([K EXCEPT !.io = @ \o <<"existsSync">>], id)]
  ELSE [value |-> "item",
        store |-> [K EXCEPT !.io = @ \o <<"existsSync">>,
                            !.cache[id].expiresAt = clock + CACHE_TTL]]

\* get that does not test expiresAt
getNoExpiry(K, id, clock) ==
  IF id \notin DOMAIN K.cache
    THEN [value |-> "null", store |-> K]
  ELSE IF ~existsSync(K.files, K.cache[id].filePath)
    THEN [value |-> "null",
          store |-> delete([K EXCEPT !.io = @ \o <<"existsSync">>], id)]
  ELSE [value |-> "item", store |-> [K EXCEPT !.io = @ \o <<"existsSync">>]]

\* get(id): the value returned and the state left
get(K, id, clock) ==
  IF id \notin DOMAIN K.cache
    THEN [value |-> "null", store |-> K]
  ELSE IF isExpired(K.cache[id], clock)
    THEN [value |-> "null", store |-> delete(K, id)]
  ELSE IF ~existsSync(K.files, K.cache[id].filePath)
    THEN [value |-> "null",
          store |-> delete([K EXCEPT !.io = @ \o <<"existsSync">>], id)]
  ELSE [value |-> "item", store |-> [K EXCEPT !.io = @ \o <<"existsSync">>]]

has(K, id, clock) ==
  IF id \notin DOMAIN K.cache
    THEN [value |-> "false", store |-> K]
  ELSE IF isExpired(K.cache[id], clock)
    THEN [value |-> "false", store |-> delete(K, id)]
  ELSE [value |-> "true", store |-> K]

refresh(K, id, clock) ==
  IF id \in DOMAIN K.cache /\ ~isExpired(K.cache[id], clock)
    THEN [value |-> "true",
          store |-> [K EXCEPT !.cache[id].expiresAt = clock + CACHE_TTL]]
    ELSE [value |-> "false", store |-> K]

\* a sweep that deletes the first expired item only
deleteFirstOnly(K, ids) ==
  IF ids = {} THEN K
  ELSE delete(K, CHOOSE x \in ids : \A y \in ids : x <= y)

RECURSIVE deleteAll(_, _)
deleteAll(K, ids) ==
  IF ids = {} THEN K
  ELSE LET id == CHOOSE x \in ids : \A y \in ids : x <= y
       IN deleteAll(delete(K, id), ids \ {id})

\* write a cache state and the record of the call back
Return(op, id, value, bytes, K) ==
  /\ cache' = K.cache
  /\ files' = K.files
  /\ ret' = [op |-> op, id |-> id, value |-> value, bytes |-> bytes, io |-> K.io]

HandlersIdle == UNCHANGED handlerVars

SchedulerIdle ==
  UNCHANGED <<heap, tasks, runningTasks, activeWorkers, concurrency, handlers,
              pc, statusLog, dispatched, invoked, outcome, registry, reply>>

\* set that enters the item in the Map before it writes the file
setPublishFirst(type, data, writeOk) ==
  LET id == generateId(putLog)
      filePath == filePathOf(type, id)
      item == CacheItem(id, type, filePath, now)
      published == [Store EXCEPT !.cache = (id :> item) @@ @]
  IN /\ putLog' = Append(putLog, [id |-> id, data |-> data, written |-> writeOk])
     /\ IF writeOk
          THEN Return("set", id, "id", Null,
                      [published EXCEPT !.files = (filePath :> data) @@ @,
                                        !.io = <<"writeFileSync">>])
          ELSE Return("set", id, "threw", Null,
                      [published EXCEPT !.io = <<"writeFileSync">>])
     /\ UNCHANGED <<now, swept>> /\ SchedulerIdle /\ HandlersIdle

\* set that catches the error of writeFileSync and goes on
setSwallowsWriteError(type, data, writeOk) ==
  LET id == generateId(putLog)
      filePath == filePathOf(type, id)
      item == CacheItem(id, type, filePath, now)
      written == IF writeOk THEN (filePath :> data) @@ files ELSE files
  IN /\ putLog' = Append(putLog, [id |-> id, data |-> data, written |-> writeOk])
     /\ Return("set", id, "id", Null,
               [Store EXCEPT !.files = written,
                             !.cache = (id :> item) @@ @,
                             !.io = <<"writeFileSync">>])
     /\ UNCHANGED <<now, swept>> /\ SchedulerIdle /\ HandlersIdle

\* set(type, data): writeFileSync, then the item enters the Map; a throw of
\* writeFileSync leaves the Map as it was
set(type, data, writeOk) ==
  LET id == generateId(putLog)
      filePath == filePathOf(type, id)
      item == CacheItem(id, type, filePath, now)
  IN /\ putLog' = Append(putLog, [id |-> id, data |-> data, written |-> writeOk])
     /\ IF writeOk
          THEN Return("set", id, "id", Null,
                      [Store EXCEPT !.files = (filePath :> data) @@ @,
                                    !.cache = (id :> item) @@ @,
                                    !.io = <<"writeFileSync">>])
          ELSE Return("set", id, "threw", Null,
                      [Store EXCEPT !.io = <<"writeFileSync">>])
     /\ UNCHANGED <<now, swept>> /\ SchedulerIdle /\ HandlersIdle

\* a consumer of an artifact: get(id), then readFileSync(item.filePath) in the
\* same synchronous block (GET /cache/:cacheId, and the task handlers)
Get(id) ==
  /\ LET r == get(Store, id, now) IN
     Return("get", id, r.value,
            IF r.value = "item" THEN files[cache[id].filePath] ELSE Null,
            r.store)
  /\ UNCHANGED <<putLog, now, swept>> /\ SchedulerIdle /\ HandlersIdle

\* the routes' test of a submitted cache id
Has(id) ==
  /\ LET r == has(Store, id, now) IN Return("has", id, r.value, Null, r.store)
  /\ UNCHANGED <<putLog, now, swept>> /\ SchedulerIdle /\ HandlersIdle

Refresh(id) ==
  /\ LET r == refresh(Store, id, now) IN
     Return("refresh", id, r.value, Null, r.store)
  /\ UNCHANGED <<putLog, now, swept>> /\ SchedulerIdle /\ HandlersIdle

Delete(id) ==
  /\ Return("delete", id, "undefined", Null, delete(Store, id))
  /\ UNCHANGED <<putLog, now, swept>> /\ SchedulerIdle /\ HandlersIdle

\* cleanup(): the sweep of the interval timer deletes every expired item
cacheCleanup ==
  /\ LET expiredIds == {id \in DOMAIN cache : isExpired(cache[id], now)} IN
     Return("cleanup", 0, "undefined", Null, deleteAll(Store, expiredIds))
  /\ UNCHANGED <<putLog, now, swept>> /\ SchedulerIdle /\ HandlersIdle

\* the callback of setInterval(() => this.cleanup(), 60 * 1000): it fires
\* when a period has passed since it last fired
cleanupTimer ==
  /\ now = swept + SweepPeriod
  /\ swept' = now
  /\ LET expiredIds == {id \in DOMAIN cache : isExpired(cache[id], now)} IN
     Return("cleanup", 0, "undefined", Null, deleteAll(Store, expiredIds))
  /\ UNCHANGED <<putLog, now>> /\ SchedulerIdle /\ HandlersIdle

\* the clock advances, but not past an instant at which the timer is due
SweepTick ==
  /\ now < SweepMaxTime
  /\ now < swept + SweepPeriod
  /\ now' = now + 1
  /\ UNCHANGED cacheVars /\ SchedulerIdle /\ HandlersIdle

\* a file of the cache directory disappears without the manager's doing
\* (the directory is under /tmp); get() tests for it
unlinkExternally(id) ==
  /\ id \in DOMAIN cache
  /\ existsSync(files, cache[id].filePath)
  /\ files' = Drop(files, cache[id].filePath)
  /\ UNCHANGED <<cache, putLog, ret, now, swept>> /\ SchedulerIdle /\ HandlersIdle

\* the clock advances
CacheTick ==
  /\ now < CacheMaxTime
  /\ now' = now + 1
  /\ UNCHANGED cacheVars /\ SchedulerIdle /\ HandlersIdle

\* ---- specifications --------------------------------------------------------
\* Spec: every operation, every handler outcome, the clock
Next ==
  \/ \E type \in RegisteredTypes : type \notin handlers /\ registerHandler(type)
  \/ \E type \in Types, data \in DataValues, priority \in DefaultPriority :
       Len(tasks) < MaxTasks /\ addTask(type, data, priority)
  \/ \E value \in ConcurrencyInputs : setConcurrency(value)
  \/ \E id \in Ids, result \in ReturnValues : HandlerReturns(id, result)
  \/ \E id \in Ids, error \in ThrownValues : HandlerThrows(id, error)
  \/ \E id \in Ids : Finally(id)
  \/ Tick

Spec == Init /\ [][Next]_vars

\* SpecPool: the worker pool under changing caps, more tasks, frozen clock;
\* tasks fail here when they are dispatched before their handler is registered
NextPool ==
  \/ \E type \in RegisteredTypes : type \notin handlers /\ registerHandler(type)
  \/ \E type \in RegisteredTypes, data \in DataValues, priority \in PoolPriorities :
       Len(tasks) < PoolTasks /\ addTask(type, data, priority)
  \/ \E value \in ConcurrencyInputs : setConcurrency(value)
  \/ \E id \in Ids, result \in Verdicts : HandlerReturns(id, result)
  \/ \E id \in Ids : Finally(id)

SpecPool == Init /\ [][NextPool]_vars

\* SpecOrder: the start order of queued tasks of three priorities under
\* changing caps, frozen clock
NextOrder ==
  \/ \E type \in RegisteredTypes : type \notin handlers /\ registerHandler(type)
  \/ \E type \in RegisteredTypes, data \in DataValues, priority \in Priorities :
       Len(tasks) < OrderTasks /\ addTask(type, data, priority)
  \/ \E value \in ConcurrencyInputs : setConcurrency(value)
  \/ \E id \in Ids, result \in Verdicts : HandlerReturns(id, result)
  \/ \E id \in Ids : Finally(id)

SpecOrder == Init /\ [][NextOrder]_vars

\* SpecFifo: serial workers (the cap stays at the constructor's 1), with the
\* clock, enough tasks for three to wait behind a running one
NextFifo ==
  \/ \E type \in RegisteredTypes : type \notin handlers /\ registerHandler(type)
  \/ \E type \in RegisteredTypes, data \in DataValues, priority \in PoolPriorities :
       Len(tasks) < FifoTasks /\ addTask(type, data, priority)
  \/ \E id \in Ids, result \in Verdicts : HandlerReturns(id, result)
  \/ \E id \in Ids : Finally(id)
  \/ Tick

SpecFifo == Init /\ [][NextFifo]_vars

\* SpecRetention: serial workers, the clock and the retention sweep
NextRetention ==
  \/ \E type \in RegisteredTypes : type \notin handlers /\ registerHandler(type)
  \/ \E type \in RegisteredTypes, data \in DataValues, priority \in DefaultPriority :
       Len(tasks) < RetentionTasks /\ addTask(type, data, priority)
  \/ \E id \in Ids, result \in Verdicts : HandlerReturns(id, result)
  \/ \E id \in Ids : Finally(id)
  \/ Tick
  \/ cleanup

SpecRetention == Init /\ [][NextRetention]_vars

\* SpecLive: submissions without end under changing caps, frozen clock. Every
\* handler is registered before the first task; the retention sweep deletes
\* old finished tasks and later tasks take their indices. The handler of every
\* invocation settles, and the runtime runs every .finally callback
InitLive ==
  /\ heap = <<>>
  /\ tasks = <<>>
  /\ runningTasks = <<>>
  /\ activeWorkers = 0
  /\ concurrency = 1
  /\ handlers = RegisteredTypes
  /\ now = 0
  /\ pc = <<>>
  /\ statusLog = <<>>
  /\ dispatched = <<>>
  /\ invoked = <<>>
  /\ outcome = <<>>
  /\ registry = {}
  /\ cache = <<>>
  /\ files = <<>>
  /\ putLog = <<>>
  /\ ret = NoCall
  /\ swept = 0
  /\ runs = <<>>
  /\ tmp = {}
  /\ done = NoInvocation
  /\ started = 0
  /\ reply = NoReply

NextLive ==
  \/ \E type \in RegisteredTypes, data \in DataValues, priority \in PoolPriorities :
       Len(tasks) < LiveTasks /\ addTask(type, data, priority)
  \/ \E id \in Ids, type \in RegisteredTypes, data \in DataValues, priority \in PoolPriorities :
       addTaskAgain(id, type, data, priority)
  \/ \E n \in 1..LiveConcurrency : setConcurrency([nan |-> FALSE, n |-> n])
  \/ \E id \in Ids, result \in Verdicts : HandlerReturns(id, result)
  \/ \E id \in Ids, error \in Errors : id <= LiveThrows /\ HandlerThrows(id, error)
  \/ \E id \in Ids : Finally(id)
  \/ cleanup

\* the positions of a task: in the queue, in executeTask at the awaited
\* handler, past the try and catch blocks, and past the .finally callback
Positions == {"queued", "awaiting", "settled", "released"}

\* the step that takes task id from one position to another, whatever else it
\* does: only HandlerReturns(id, _) and HandlerThrows(id, _) leave "awaiting",
\* and only Finally(id) leaves "settled"
Moves(id, from, to) ==
  /\ id \in Ids
  /\ pc[id] = from
  /\ pc' \in {f \in [DOMAIN pc -> Positions] : f[id] = to}

SpecLive ==
  /\ InitLive
  /\ [][NextLive]_vars
  /\ \A id \in 1..LiveTasks : WF_pc(Moves(id, "awaiting", "settled"))
  /\ \A id \in 1..LiveTasks : WF_pc(Moves(id, "settled", "released"))

\* SpecCache: the cache manager's own operations and the clock
CacheIds == 1..MaxPuts

NextCache ==
  \/ \E type \in CacheTypes, data \in Contents, writeOk \in WriteOutcomes :
       Len(putLog) < MaxPuts /\ set(type, data, writeOk)
  \/ \E id \in CacheIds : Get(id)
  \/ \E id \in CacheIds : Has(id)
  \/ \E id \in CacheIds : Refresh(id)
  \/ \E id \in CacheIds : Delete(id)
  \/ cacheCleanup
  \/ CacheTick

SpecCache == Init /\ [][NextCache]_vars

\* SpecCacheDir: the same with files of the cache directory disappearing;
\* one content, every write succeeds
NextCacheDir ==
  \/ \E type \in CacheTypes, data \in {"bytesA"}, writeOk \in {TRUE} :
       Len(putLog) < MaxPuts /\ set(type, data, writeOk)
  \/ \E id \in CacheIds : Get(id)
  \/ \E id \in CacheIds : Has(id)
  \/ \E id \in CacheIds : Refresh(id)
  \/ \E id \in CacheIds : Delete(id)
  \/ cacheCleanup
  \/ CacheTick
  \/ \E id \in CacheIds : unlinkExternally(id)

SpecCacheDir == Init /\ [][NextCacheDir]_vars

\* SpecSweep: the cache under its interval timer; one content, every write
\* succeeds
NextSweep ==
  \/ \E type \in CacheTypes, data \in {"bytesA"}, writeOk \in {TRUE} :
       Len(putLog) < MaxPuts /\ set(type, data, writeOk)
  \/ \E id \in CacheIds : Get(id)
  \/ \E id \in CacheIds : Has(id)
  \/ \E id \in CacheIds : Refresh(id)
  \/ \E id \in CacheIds : Delete(id)
  \/ cleanupTimer
  \/ SweepTick

SpecSweep == Init /\ [][NextSweep]_vars

\* ---- the task handlers ----

\* checker names and cache ids are texts: sequences of characters
Digit(n) == <<"0", "1", "2", "3", "4", "5", "6", "7", "8", "9">>[n + 1]

\* the text uuidv4() gave for the cache id the model numbers n
uuidv4(n) ==
  <<"c", "0", "f", "f", "e", "e", "0", Digit(n), "-", "0", "0", "0", "0", "-",
    "4", "0", "0", "0", "-", "8", "0", "0", "0", "-",
    "0", "0", "0", "0", "0", "0", "0", "0", "0", "0", "0", "0">>

\* the key of the Map a text is, 0 when it is the text of no id (Map keys
\* are compared as they are written)
cacheKey(text) ==
  IF \E n \in 1..9 : uuidv4(n) = text
    THEN CHOOSE n \in 1..9 : uuidv4(n) = text
    ELSE 0

UpperCase ==
  ("a" :> "A") @@ ("b" :> "B") @@ ("c" :> "C") @@ ("d" :> "D")
    @@ ("e" :> "E") @@ ("f" :> "F")

toUpperCase(text) ==
  [i \in DOMAIN text |->
     IF text[i] \in DOMAIN UpperCase THEN UpperCase[text[i]] ELSE text[i]]

TESTLIB_CHECKERS ==
  {<<"i", "c", "m", "p">>, <<"n", "c", "m", "p">>, <<"w", "c", "m", "p">>,
   <<"r", "c", "m", "p">>, <<"d", "c", "m", "p">>, <<"f", "c", "m", "p">>,
   <<"h", "c", "m", "p">>, <<"l", "c", "m", "p">>,
   <<"u", "n", "c", "m", "p">>, <<"c", "a", "s", "e", "i", "c", "m", "p">>,
   <<"c", "a", "s", "e", "n", "c", "m", "p">>,
   <<"c", "a", "s", "e", "w", "c", "m", "p">>, <<"y", "e", "s", "n", "o">>,
   <<"n", "y", "e", "s", "n", "o">>, <<"r", "c", "m", "p", "4">>,
   <<"r", "c", "m", "p", "6">>, <<"r", "c", "m", "p", "9">>,
   <<"r", "n", "c", "m", "p">>, <<"a", "c", "m", "p">>}

LowerHex ==
  {"0", "1", "2", "3", "4", "5", "6", "7", "8", "9",
   "a", "b", "c", "d", "e", "f"}

\* a pattern that leaves out the i flag
UUID_REGEX_CaseSensitive(text) ==
  /\ Len(text) = 36
  /\ \A i \in 1..36 :
       IF i \in {9, 14, 19, 24} THEN text[i] = "-" ELSE text[i] \in LowerHex

\* /^[0-9a-f]{8}-[0-9a-f]{4}-[0-9a-f]{4}-[0-9a-f]{4}-[0-9a-f]{12}$/i
UUID_REGEX(text) ==
  /\ Len(text) = 36
  /\ \A i \in 1..36 :
       IF i \in {9, 14, 19, 24}
         THEN text[i] = "-"
         ELSE text[i] \in LowerHex \cup {UpperCase[c] : c \in DOMAIN UpperCase}

isCustomChecker(checkerName) == UUID_REGEX(checkerName)

isTestlibChecker(checkerName) ==
  IF isCustomChecker(checkerName) THEN TRUE
  ELSE checkerName \in TESTLIB_CHECKERS

\* the checker names submitted: the id of a cached checker, the same in
\* capitals, an id with a letter that is no hex digit, a testlib name and a
\* name that is neither
CheckerNames ==
  {uuidv4(1), toUpperCase(uuidv4(1)), [uuidv4(1) EXCEPT ![1] = "g"],
   <<"i", "c", "m", "p">>, <<"m", "y", "c", "m", "p">>}

\* what the sandbox reports
RunStatuses == 0..4
ExitCodes == {0, 1}
Scores == {-1, 0, 1, ScoreUnit, ScoreUnit + 1}
InteractiveVerdicts == {"accepted", "wrong-answer"}

\* a directory name without the random part
createTempDirNoUuid(prefix, clock, uuid) == <<prefix, clock, 0>>

\* createUniqueTempDir: the name `${prefix}-${Date.now()}-${randomUUID()}`
createUniqueTempDir(prefix, clock, uuid) == <<prefix, clock, uuid>>

mkdirSync(T, dir) == T \cup {dir}
rmSync(T, dir) == T \ {dir}

\* a test that looks at the status alone
cleanExitStatusOnly(status, code) == status = 1

\* runResult.result.status !== 1 || runResult.result.code !== 0, negated
cleanExit(status, code) == ~(status # 1 \/ code # 0)

\* the status handleJudge reports when the program did not exit cleanly
judgeRunStatus(status, code) ==
  IF status = 2 THEN "time-limit-exceeded"
  ELSE IF status = 3 THEN "memory-limit-exceeded"
  ELSE "runtime-error"

\* a mapping that asks more than a full score for accepted
checkerStatusStrict(normalizedScore) ==
  IF normalizedScore > ScoreUnit THEN "accepted"
  ELSE IF normalizedScore > 0 THEN "partial-accepted"
  ELSE "wrong-answer"

\* the status handleJudge reports from the checker's normalizedScore
checkerStatus(normalizedScore) ==
  IF normalizedScore >= ScoreUnit THEN "accepted"
  ELSE IF normalizedScore > 0 THEN "partial-accepted"
  ELSE "wrong-answer"

\* getJudgeStatus of the judge library
getJudgeStatus(status, code) ==
  IF status = 1 THEN (IF code = 0 THEN "accepted" ELSE "runtime-error")
  ELSE IF status = 2 THEN "time-limit-exceeded"
  ELSE IF status = 3 THEN "memory-limit-exceeded"
  ELSE "runtime-error"

\* a mapping that does not look at the exit code
runStatusNoExitCode(status, code) ==
  IF status # 1
    THEN IF status = 2 THEN "time-limit-exceeded"
         ELSE IF status = 3 THEN "memory-limit-exceeded"
         ELSE "runtime-error"
  ELSE "exited-normally"

\* the status handleRun reports
runStatus(status, code) ==
  IF status # 1
    THEN IF status = 2 THEN "time-limit-exceeded"
         ELSE IF status = 3 THEN "memory-limit-exceeded"
         ELSE "runtime-error"
  ELSE IF code # 0 THEN "non-zero-exit"
  ELSE "exited-normally"

\* a handler invocation at its first await
Invocation(n, kind, tempDir, checkerName, call) ==
  [n |-> n, kind |-> kind, pc |-> call, tempDir |-> tempDir,
   checkerName |-> checkerName, calls |-> <<call>>, useTestlib |-> FALSE,
   run |-> NoResult, paths |-> {}, inputCacheId |-> 0, submissionId |-> <<>>]

\* path.join of a scratch directory and a file name
join(dir, name) == Append(dir, name)

\* the path compileChecker resolves with: a file of the sandbox package
builtinCheckerPath(checkerName) == <<"checkers", checkerName>>

\* the invocation r ends: its promise resolves with a result record
Returned(r, status, score, checkerMessage) ==
  [n |-> r.n, kind |-> r.kind, tempDir |-> r.tempDir,
   checkerName |-> r.checkerName, calls |-> r.calls,
   useTestlib |-> r.useTestlib, outcome |-> "returned", status |-> status,
   run |-> r.run, score |-> score, checkerMessage |-> checkerMessage,
   error |-> Null, paths |-> r.paths, inputCacheId |-> r.inputCacheId,
   submissionId |-> r.submissionId]

\* the invocation r ends: its promise rejects with an Error
Threw(r, error) ==
  [n |-> r.n, kind |-> r.kind, tempDir |-> r.tempDir,
   checkerName |-> r.checkerName, calls |-> r.calls,
   useTestlib |-> r.useTestlib, outcome |-> "threw", status |-> Null,
   run |-> r.run, score |-> NoScore, checkerMessage |-> FALSE,
   error |-> error, paths |-> r.paths, inputCacheId |-> r.inputCacheId,
   submissionId |-> r.submissionId]

\* the handlers touch the cache through get and set only
CacheAfter(K) ==
  /\ cache' = K.cache
  /\ files' = K.files
  /\ UNCHANGED <<ret, swept, now>>

\* handleJudge up to its first await: the three handles, the scratch
\* directory, the staging, the call of runProgram
judgeHandler(binaryCacheId, inputCacheId, outputCacheId, checkerName, staged) ==
  LET n == started + 1
      binaryCache == get(Store, binaryCacheId, now)
      inputCache == get(binaryCache.store, inputCacheId, now)
      outputCache == get(inputCache.store, outputCacheId, now)
      tempDir == createUniqueTempDir("judge", now, n)
      early == Invocation(n, "judge", <<>>, checkerName, "none")
      r == Invocation(n, "judge", tempDir, checkerName, "runProgram")
  IN /\ started' = n
     /\ CacheAfter(outputCache.store)
     /\ IF binaryCache.value = "null"
          THEN /\ done' = Threw([early EXCEPT !.calls = <<>>],
                                "Binary cache not found or expired")
               /\ UNCHANGED <<runs, tmp>>
        ELSE IF inputCache.value = "null"
          THEN /\ done' = Threw([early EXCEPT !.calls = <<>>],
                                "Input cache not found or expired")
               /\ UNCHANGED <<runs, tmp>>
        ELSE IF outputCache.value = "null"
          THEN /\ done' = Threw([early EXCEPT !.calls = <<>>],
                                "Output cache not found or expired")
               /\ UNCHANGED <<runs, tmp>>
        ELSE IF ~staged
          THEN /\ done' = Threw([r EXCEPT !.calls = <<>>], "staging failed")
               /\ tmp' = rmSync(mkdirSync(tmp, tempDir), tempDir)
               /\ UNCHANGED runs
        ELSE /\ runs' = (n :> [r EXCEPT !.paths = {join(tempDir, "program"),
                                                    join(tempDir, "input.txt")}])
                        @@ runs
             /\ tmp' = mkdirSync(tmp, tempDir)
             /\ UNCHANGED done
     /\ UNCHANGED putLog

\* handleJudge called on its own
handleJudge(binaryCacheId, inputCacheId, outputCacheId, checkerName, staged) ==
  judgeHandler(binaryCacheId, inputCacheId, outputCacheId, checkerName, staged) /\ SchedulerIdle

\* handleRun up to its first await
runHandler(binaryCacheId, inputCacheId, staged) ==
  LET n == started + 1
      binaryCache == get(Store, binaryCacheId, now)
      inputCache == get(binaryCache.store, inputCacheId, now)
      tempDir == createUniqueTempDir("run", now, n)
      early == Invocation(n, "run", <<>>, <<>>, "none")
      r == Invocation(n, "run", tempDir, <<>>, "runProgram")
  IN /\ started' = n
     /\ CacheAfter(inputCache.store)
     /\ IF binaryCache.value = "null"
          THEN /\ done' = Threw([early EXCEPT !.calls = <<>>],
                                "Binary cache not found or expired")
               /\ UNCHANGED <<runs, tmp>>
        ELSE IF inputCache.value = "null"
          THEN /\ done' = Threw([early EXCEPT !.calls = <<>>],
                                "Input cache not found or expired")
               /\ UNCHANGED <<runs, tmp>>
        ELSE IF ~staged
          THEN /\ done' = Threw([r EXCEPT !.calls = <<>>], "staging failed")
               /\ tmp' = rmSync(mkdirSync(tmp, tempDir), tempDir)
               /\ UNCHANGED runs
        ELSE /\ runs' = (n :> [r EXCEPT !.paths = {join(tempDir, "program"),
                                                    join(tempDir, "input.txt")}])
                        @@ runs
             /\ tmp' = mkdirSync(tmp, tempDir)
             /\ UNCHANGED done
     /\ UNCHANGED putLog

\* handleRun called on its own
handleRun(binaryCacheId, inputCacheId, staged) ==
  runHandler(binaryCacheId, inputCacheId, staged) /\ SchedulerIdle

\* handleInteractive up to its await; inputCacheId 0 is an absent field
interactiveHandler(userBinaryCacheId, interactorBinaryCacheId, inputCacheId, staged) ==
  LET n == started + 1
      userBinaryCache == get(Store, userBinaryCacheId, now)
      interactorBinaryCache ==
        get(userBinaryCache.store, interactorBinaryCacheId, now)
      tempDir == createUniqueTempDir("interactive", now, n)
      early == Invocation(n, "interactive", <<>>, <<>>, "none")
      r == [Invocation(n, "interactive", tempDir, <<>>, "runInteractive")
              EXCEPT !.inputCacheId = inputCacheId]
      inputCache == IF inputCacheId # 0
                      THEN get(interactorBinaryCache.store, inputCacheId, now)
                      ELSE [value |-> "null",
                            store |-> interactorBinaryCache.store]
  IN /\ started' = n
     /\ IF userBinaryCache.value = "null"
          THEN /\ done' = Threw([early EXCEPT !.calls = <<>>],
                                "User binary cache not found or expired")
               /\ CacheAfter(interactorBinaryCache.store)
               /\ UNCHANGED <<runs, tmp>>
        ELSE IF interactorBinaryCache.value = "null"
          THEN /\ done' = Threw([early EXCEPT !.calls = <<>>],
                                "Interactor binary cache not found or expired")
               /\ CacheAfter(interactorBinaryCache.store)
               /\ UNCHANGED <<runs, tmp>>
        ELSE IF ~staged
          THEN /\ done' = Threw([r EXCEPT !.calls = <<>>], "staging failed")
               /\ tmp' = rmSync(mkdirSync(tmp, tempDir), tempDir)
               /\ CacheAfter(interactorBinaryCache.store)
               /\ UNCHANGED runs
        ELSE /\ runs' =
                  (n :> [r EXCEPT !.paths =
                           {join(tempDir, "user"), join(tempDir, "interactor")}
                             \cup (IF inputCache.value = "null" THEN {}
                                   ELSE {cache[inputCacheId].filePath})])
                    @@ runs
             /\ tmp' = mkdirSync(tmp, tempDir)
             /\ CacheAfter(inputCache.store)
             /\ UNCHANGED done
     /\ UNCHANGED putLog

\* handleInteractive called on its own
handleInteractive(userBinaryCacheId, interactorBinaryCacheId, inputCacheId, staged) ==
  interactiveHandler(userBinaryCacheId, interactorBinaryCacheId, inputCacheId, staged) /\ SchedulerIdle

\* the finally block of a handler, then the end of the invocation
Finish(r, d) ==
  /\ done' = d
  /\ runs' = Drop(runs, r.n)
  /\ tmp' = rmSync(tmp, r.tempDir)
  /\ UNCHANGED started

\* the handler goes on to its next await
Await(r) ==
  /\ runs' = [runs EXCEPT ![r.n] = r]
  /\ UNCHANGED <<tmp, done, started>>

\* runProgram resolves: handleRun maps the result; handleJudge stops on a
\* run that did not exit cleanly, and else resolves the checker (from the
\* cache, or by asking the sandbox for it) and calls it
RunProgramReturns(n, status, code) ==
  /\ n \in DOMAIN runs
  /\ runs[n].pc = "runProgram"
  /\ LET r == [runs[n] EXCEPT !.run = [status |-> status, code |-> code]]
         checkerCache == get(Store, cacheKey(r.checkerName), now)
         resolved == [r EXCEPT !.calls = @ \o <<"cacheManager.get">>]
     IN IF r.kind = "run"
          THEN /\ Finish(r, Returned(r, runStatus(status, code), NoScore,
                                     FALSE))
               /\ UNCHANGED <<cache, files, ret, swept, now>>
        ELSE IF ~cleanExit(status, code)
          THEN /\ Finish(r, Returned(r, judgeRunStatus(status, code),
                                     NoScore, FALSE))
               /\ UNCHANGED <<cache, files, ret, swept, now>>
        ELSE IF isCustomChecker(r.checkerName)
          THEN /\ CacheAfter(checkerCache.store)
               /\ IF checkerCache.value = "null"
                    THEN Finish(r, Threw(resolved,
                                  "Custom checker cache not found or expired"))
                    ELSE Await([resolved EXCEPT
                                  !.pc = "runChecker",
                                  !.calls = @ \o <<"runChecker">>,
                                  !.paths = @ \cup
                                    {cache[cacheKey(r.checkerName)].filePath,
                                     join(r.tempDir, "output.txt"),
                                     join(r.tempDir, "answer.txt")},
                                  !.useTestlib =
                                     isTestlibChecker(r.checkerName)])
        ELSE /\ Await([r EXCEPT !.pc = "compileChecker",
                                !.calls = @ \o <<"compileChecker">>])
             /\ UNCHANGED <<cache, files, ret, swept, now>>
  /\ UNCHANGED putLog /\ SchedulerIdle

\* a sandbox call rejects: the exception leaves the handler through finally
SandboxThrows(n) ==
  /\ n \in DOMAIN runs
  /\ runs[n].pc \in {"runProgram", "compileChecker", "runChecker",
                     "runInteractive"}
  /\ Finish(runs[n], Threw(runs[n], "sandbox error"))
  /\ UNCHANGED <<cacheVars, now>> /\ SchedulerIdle

\* compileChecker resolves with the path of the built-in checker
CompileCheckerReturns(n) ==
  /\ n \in DOMAIN runs
  /\ runs[n].pc = "compileChecker"
  /\ Await([runs[n] EXCEPT !.pc = "runChecker",
                           !.calls = @ \o <<"runChecker">>,
                           !.paths = @ \cup
                             {builtinCheckerPath(runs[n].checkerName),
                              join(runs[n].tempDir, "output.txt"),
                              join(runs[n].tempDir, "answer.txt")},
                           !.useTestlib = isTestlibChecker(runs[n].checkerName)])
  /\ UNCHANGED <<cacheVars, now>> /\ SchedulerIdle

\* runChecker resolves: the verdict from normalizedScore
RunCheckerReturns(n, normalizedScore) ==
  /\ n \in DOMAIN runs
  /\ runs[n].pc = "runChecker"
  /\ Finish(runs[n], Returned(runs[n], checkerStatus(normalizedScore),
                              normalizedScore, TRUE))
  /\ UNCHANGED <<cacheVars, now>> /\ SchedulerIdle

\* runInteractive resolves: the sandbox's verdict is passed on
RunInteractiveReturns(n, verdict) ==
  /\ n \in DOMAIN runs
  /\ runs[n].pc = "runInteractive"
  /\ Finish(runs[n], Returned(runs[n], verdict, NoScore, FALSE))
  /\ UNCHANGED <<cacheVars, now>> /\ SchedulerIdle

\* the submissionId passed to compile: `compile_${Date.now()}`, or
\* `checker_${Date.now()}` in handleCompileChecker
submissionId(kind, clock) ==
  <<IF kind = "compile-checker" THEN "checker" ELSE "compile", clock>>

\* handleCompile and handleCompileChecker up to the await of compile
compileHandler(kind, sourceCacheId) ==
  LET n == started + 1
      sourceCache == get(Store, sourceCacheId, now)
      early == Invocation(n, kind, <<>>, <<>>, "none")
      r == [Invocation(n, kind, <<>>, <<>>, "compile")
              EXCEPT !.submissionId = submissionId(kind, now)]
  IN /\ started' = n
     /\ CacheAfter(sourceCache.store)
     /\ IF sourceCache.value = "null"
          THEN /\ done' = Threw([early EXCEPT !.calls = <<>>],
                                IF kind = "compile-checker"
                                  THEN "Checker source code cache not found or expired"
                                  ELSE "Source code cache not found or expired")
               /\ UNCHANGED runs
          ELSE /\ runs' = (n :> r) @@ runs
               /\ UNCHANGED done
     /\ UNCHANGED <<tmp, putLog>>

\* handleCompile or handleCompileChecker called on its own
handleCompile(kind, sourceCacheId) ==
  compileHandler(kind, sourceCacheId) /\ SchedulerIdle

\* compile resolves. The sandbox made its own directory, which it returns
\* when the compilation succeeded and may return when it failed. The handler
\* returns at once on success = false; else it reads the executable and
\* caches it, either of which can throw, and then calls cleanupTempDir.
CompileReturns(n, success, hasTempDir, readOk, writeOk) ==
  /\ n \in DOMAIN runs
  /\ runs[n].pc = "compile"
  /\ LET sandboxDir == IF success \/ hasTempDir
                         THEN <<"sandbox", now, n>> ELSE <<>>
         r == [runs[n] EXCEPT !.tempDir = sandboxDir]
         made == IF sandboxDir = <<>> THEN tmp ELSE mkdirSync(tmp, sandboxDir)
         id == generateId(putLog)
         type == IF r.kind = "compile-checker" THEN "checker" ELSE "binary"
         filePath == filePathOf(type, id)
         item == CacheItem(id, type, filePath, now)
         cached == [r EXCEPT !.calls = @ \o <<"cacheManager.set">>]
     IN /\ runs' = Drop(runs, n)
        /\ UNCHANGED <<started, ret, swept, now>>
        /\ IF ~success
             THEN /\ done' = Returned(r, "compile-failed", NoScore,
                                      FALSE)
                  /\ tmp' = made
                  /\ UNCHANGED <<cache, files, putLog>>
           ELSE IF ~readOk
             THEN /\ done' = Threw(r, "reading the executable failed")
                  /\ tmp' = made
                  /\ UNCHANGED <<cache, files, putLog>>
           ELSE IF ~writeOk
             THEN /\ done' = Threw(cached, "caching the executable failed")
                  /\ tmp' = made
                  /\ putLog' = Append(putLog, [id |-> id, data |-> "bytesA",
                                               written |-> FALSE])
                  /\ UNCHANGED <<cache, files>>
           ELSE /\ done' = Returned([cached EXCEPT
                                       !.calls = @ \o <<"cleanupTempDir">>],
                                    "compiled", NoScore, FALSE)
                /\ tmp' = rmSync(made, sandboxDir)
                /\ putLog' = Append(putLog, [id |-> id, data |-> "bytesA",
                                             written |-> TRUE])
                /\ cache' = (id :> item) @@ cache
                /\ files' = (filePath :> "bytesA") @@ files
  /\ SchedulerIdle

\* compile rejects: no directory was returned to the handler
CompileThrows(n) ==
  /\ n \in DOMAIN runs
  /\ runs[n].pc = "compile"
  /\ done' = Threw(runs[n], "sandbox error")
  /\ runs' = Drop(runs, n)
  /\ UNCHANGED <<tmp, started>>
  /\ UNCHANGED <<cacheVars, now>> /\ SchedulerIdle

\* the clock advances while handlers run
HandlerTick ==
  /\ now < HandlerMaxTime
  /\ now' = now + 1
  /\ UNCHANGED cacheVars /\ SchedulerIdle /\ HandlersIdle

\* the ids a request can name: those uploaded and one that never was
HandlerIds == 1..(HandlerPuts + 1)

\* an upload while handlers run
Upload ==
  /\ Len(putLog) < HandlerPuts
  /\ set("binary", "bytesA", TRUE)

\* SpecJudge: judge invocations over an upload that expires
NextJudge ==
  \/ Upload
  \/ HandlerTick
  \/ \E b \in HandlerIds, checkerName \in CheckerNames, staged \in BOOLEAN :
       started < JudgeRuns /\ handleJudge(b, 1, 1, checkerName, staged)
  \/ \E n \in 1..started, status \in RunStatuses, code \in ExitCodes :
       RunProgramReturns(n, status, code)
  \/ \E n \in 1..started : CompileCheckerReturns(n)
  \/ \E n \in 1..started, normalizedScore \in Scores :
       RunCheckerReturns(n, normalizedScore)
  \/ \E n \in 1..started : SandboxThrows(n)

SpecJudge == Init /\ [][NextJudge]_vars

\* SpecRun: run invocations over an upload that expires
NextRun ==
  \/ Upload
  \/ HandlerTick
  \/ \E b \in HandlerIds, i \in HandlerIds, staged \in BOOLEAN :
       started < RunRuns /\ handleRun(b, i, staged)
  \/ \E n \in 1..started, status \in RunStatuses, code \in ExitCodes :
       RunProgramReturns(n, status, code)
  \/ \E n \in 1..started : SandboxThrows(n)

SpecRun == Init /\ [][NextRun]_vars

\* SpecScratch: judge, run and interactive invocations side by side, all
\* within one instant of the clock
NextScratch ==
  \/ Upload
  \/ \E b \in HandlerIds, staged \in BOOLEAN :
       started < ScratchRuns
         /\ \E checkerName \in {<<"i", "c", "m", "p">>, toUpperCase(uuidv4(1))} :
              handleJudge(b, 1, 1, checkerName, staged)
  \/ \E b \in HandlerIds, staged \in BOOLEAN :
       started < ScratchRuns /\ handleRun(b, 1, staged)
  \/ \E b \in HandlerIds, i \in {0} \cup HandlerIds, staged \in BOOLEAN :
       started < ScratchRuns /\ handleInteractive(b, 1, i, staged)
  \/ \E n \in 1..started, status \in {1, 2} :
       RunProgramReturns(n, status, 0)
  \/ \E n \in 1..started : CompileCheckerReturns(n)
  \/ \E n \in 1..started : RunCheckerReturns(n, ScoreUnit)
  \/ \E n \in 1..started, verdict \in InteractiveVerdicts :
       RunInteractiveReturns(n, verdict)
  \/ \E n \in 1..started : SandboxThrows(n)

SpecScratch == Init /\ [][NextScratch]_vars

\* SpecCompile: compile and compile-checker invocations
NextCompile ==
  \/ Upload
  \/ HandlerTick
  \/ \E kind \in {"compile", "compile-checker"}, id \in HandlerIds :
       started < CompileRuns /\ handleCompile(kind, id)
  \/ \E n \in 1..started, success \in BOOLEAN, hasTempDir \in BOOLEAN,
        readOk \in BOOLEAN, writeOk \in BOOLEAN :
       CompileReturns(n, success, hasTempDir, readOk, writeOk)
  \/ \E n \in 1..started : CompileThrows(n)

SpecCompile == Init /\ [][NextCompile]_vars

\* ---- the HTTP routes -------------------------------------------------------
\* The routes module registers the five handlers when it is loaded, and
\* JUDGE_THREADS is left unset: the queue runs one task at a time.
TaskType == {"compile", "compile-checker", "judge", "run", "interactive"}

\* process.env.JUDGE_TOKEN, and the token a client sends: "" is none
EnvTokens == {"", "secret"}
ClientTokens == {"", "secret", "guess"}

\* authMiddleware with a token that is not compared
authMiddlewareAnyToken(env, header, query) ==
  LET clientToken == IF header # "" THEN header ELSE query IN
  IF env = "" THEN 500 ELSE IF clientToken = "" THEN 401 ELSE 0

\* authMiddleware: the code of the response it sends, 0 when it sends none
authMiddleware(env, header, query) ==
  LET clientToken == IF header # "" THEN header ELSE query IN
  IF env = "" THEN 500
  ELSE IF clientToken = "" \/ clientToken # env THEN 401
  ELSE 0

queueVars ==
  <<heap, tasks, runningTasks, activeWorkers, concurrency, handlers, pc,
    statusLog, dispatched, invoked, outcome, registry>>

invocationVars == <<runs, tmp, done, started>>

\* a request: its route, JUDGE_TOKEN as it is read, the tokens sent
Request(route, env, header, query) ==
  [route |-> route, env |-> env, header |-> header, query |-> query]

\* reply.code(code).send(body), or the value the route returns
Send(req, code, body) == reply' = [req |-> req, code |-> code, body |-> body]

\* a route with preHandler authMiddleware: its handler runs only when the
\* middleware has sent no response
Guarded(req, Served) ==
  LET code == authMiddleware(req.env, req.header, req.query) IN
  IF code # 0
    THEN /\ Send(req, code,
                 IF code = 500 THEN "Server misconfigured: JUDGE_TOKEN not set"
                               ELSE "Unauthorized")
         /\ UNCHANGED <<queueVars, invocationVars, cacheVars, now>>
    ELSE Served

\* a request body, and the data of the task made of it: 0 is a field left out
NoBody ==
  [sourceCacheId |-> 0, binaryCacheId |-> 0, inputCacheId |-> 0,
   outputCacheId |-> 0, userBinaryCacheId |-> 0, interactorBinaryCacheId |-> 0,
   checkerName |-> <<>>]

\* handler(task.data) in executeTask, for the handler registered for the type
handler(type, data, staged) ==
  CASE type = "compile" -> compileHandler("compile", data.sourceCacheId)
    [] type = "compile-checker" ->
         compileHandler("compile-checker", data.sourceCacheId)
    [] type = "judge" ->
         judgeHandler(data.binaryCacheId, data.inputCacheId,
                      data.outputCacheId, data.checkerName, staged)
    [] type = "run" -> runHandler(data.binaryCacheId, data.inputCacheId, staged)
    [] type = "interactive" ->
         interactiveHandler(data.userBinaryCacheId,
                            data.interactorBinaryCacheId, data.inputCacheId,
                            staged)

\* the handler of the task that process() has just dispatched runs up to its
\* first await inside that call; with one worker there is at most one. K is
\* the cache as the caller leaves it; a caller that goes on to a handler has
\* found every item it tested and so has left the cache as it was.
runDispatched(K, staged) ==
  LET new == {id \in DOMAIN invoked' :
                invoked'[id] > (IF id \in DOMAIN invoked THEN invoked[id] ELSE 0)}
  IN IF new = {}
       THEN /\ cache' = K.cache
            /\ files' = K.files
            /\ UNCHANGED <<invocationVars, putLog, ret, swept, now>>
       ELSE \E id \in new : handler(tasks'[id].type, tasks'[id].data, staged)

\* the has() tests of a submission route, in order, up to the first that fails
RECURSIVE hasAll(_, _, _)
hasAll(K, ids, clock) ==
  IF ids = <<>>
    THEN [value |-> "true", store |-> K]
    ELSE LET h == has(K, Head(ids), clock) IN
         IF h.value = "false" THEN h ELSE hasAll(h.store, Tail(ids), clock)

\* a submission route that tests no handle
submitUnchecked(req, type, required, optional, data, staged) ==
  /\ addTaskCall(type, data, 0)
  /\ runDispatched(Store, staged)
  /\ Send(req, 200, "pending")

\* the body of a submission route: 400 when a required field is left out or
\* a handle is not held, else addTask and the response { taskId, status }
submit(req, type, required, optional, data, staged) ==
  LET given == SelectSeq(optional, LAMBDA id : id # 0)
      h == hasAll(Store, required \o given, now)
  IN IF \E k \in 1..Len(required) : required[k] = 0
       THEN /\ Send(req, 400, "required")
            /\ UNCHANGED <<queueVars, invocationVars, cacheVars, now>>
     ELSE IF h.value = "false"
       THEN /\ Send(req, 400, "not found or expired")
            /\ cache' = h.store.cache
            /\ files' = h.store.files
            /\ UNCHANGED <<queueVars, invocationVars, putLog, ret, swept, now>>
     ELSE /\ addTaskCall(type, data, 0)
          /\ runDispatched(h.store, staged)
          /\ Send(req, 200, "pending")

\* POST /compile and POST /compile/checker
postCompile(type, req, sourceCacheId, staged) ==
  Guarded(req,
          submit(req, type, <<sourceCacheId>>, <<>>,
                 [NoBody EXCEPT !.sourceCacheId = sourceCacheId], staged))

\* POST /judge: checkerName is not tested
postJudge(req, binaryCacheId, inputCacheId, outputCacheId, checkerName, staged) ==
  Guarded(req,
          submit(req, "judge",
                 <<binaryCacheId, inputCacheId, outputCacheId>>, <<>>,
                 [NoBody EXCEPT !.binaryCacheId = binaryCacheId,
                                !.inputCacheId = inputCacheId,
                                !.outputCacheId = outputCacheId,
                                !.checkerName = checkerName], staged))

\* POST /run
postRun(req, binaryCacheId, inputCacheId, staged) ==
  Guarded(req,
          submit(req, "run", <<binaryCacheId, inputCacheId>>, <<>>,
                 [NoBody EXCEPT !.binaryCacheId = binaryCacheId,
                                !.inputCacheId = inputCacheId], staged))

\* POST /interactive: inputCacheId is tested when it is given
postInteractive(req, userBinaryCacheId, interactorBinaryCacheId, inputCacheId, staged) ==
  Guarded(req,
          submit(req, "interactive",
                 <<userBinaryCacheId, interactorBinaryCacheId>>,
                 <<inputCacheId>>,
                 [NoBody EXCEPT
                    !.userBinaryCacheId = userBinaryCacheId,
                    !.interactorBinaryCacheId = interactorBinaryCacheId,
                    !.inputCacheId = inputCacheId], staged))

\* POST /upload of a file of a valid type
postUpload(req) ==
  Guarded(req,
          LET id == generateId(putLog)
              filePath == filePathOf("binary", id)
          IN /\ putLog' = Append(putLog, [id |-> id, data |-> "bytesA",
                                          written |-> TRUE])
             /\ cache' = (id :> CacheItem(id, "binary", filePath, now)) @@ cache
             /\ files' = (filePath :> "bytesA") @@ files
             /\ Send(req, 200, "cacheId")
             /\ UNCHANGED <<queueVars, invocationVars, ret, swept, now>>)

\* GET /task/:taskId
getTaskRoute(req, taskId) ==
  Guarded(req,
          /\ IF taskId \notin registry
               THEN Send(req, 404, "Task not found")
               ELSE Send(req, 200, getTask(registry, tasks, taskId).status)
          /\ UNCHANGED <<queueVars, invocationVars, cacheVars, now>>)

\* GET /cache/:cacheId
getCacheRoute(req, cacheId) ==
  Guarded(req,
          LET r == get(Store, cacheId, now) IN
          /\ IF r.value = "null"
               THEN Send(req, 404, "Cache not found or expired")
               ELSE Send(req, 200, files[cache[cacheId].filePath])
          /\ cache' = r.store.cache
          /\ files' = r.store.files
          /\ UNCHANGED <<queueVars, invocationVars, putLog, ret, swept, now>>)

\* GET /status: getStatus() and getStats() read and change nothing
getStatusRoute(req) ==
  Guarded(req,
          /\ Send(req, 200, "status")
          /\ UNCHANGED <<queueVars, invocationVars, cacheVars, now>>)

\* GET /health has no preHandler
getHealth ==
  /\ Send(Request("GET /health", "", "", ""), 200, "ok")
  /\ UNCHANGED <<queueVars, invocationVars, cacheVars, now>>

\* executeTask that takes a verdict other than success for a failure
settleFailsOnVerdict(id) ==
  /\ pc[id] = "awaiting"
  /\ DOMAIN runs = {}
  /\ done.n = started
  /\ IF done.outcome = "returned" /\ done.status \in {"accepted", "compiled"}
       THEN HandlerReturns(id, done.status)
       ELSE HandlerThrows(id, [isError |-> TRUE,
                               message |-> IF done.outcome = "returned"
                                             THEN done.status ELSE done.error])

\* the handler's promise has settled: executeTask goes on after its await,
\* with the value the handler returned or the Error it threw
settle(id) ==
  /\ pc[id] = "awaiting"
  /\ DOMAIN runs = {}
  /\ done.n = started
  /\ IF done.outcome = "returned"
       THEN HandlerReturns(id, done.status)
       ELSE HandlerThrows(id, [isError |-> TRUE, message |-> done.error])

\* the .finally callback: process() starts the handler of the next task
released(id) ==
  /\ finallyCallback(id)
  /\ \E staged \in BOOLEAN : runDispatched(Store, staged)
  /\ UNCHANGED reply

InitServer ==
  /\ heap = <<>>
  /\ tasks = <<>>
  /\ runningTasks = <<>>
  /\ activeWorkers = 0
  /\ concurrency = 1
  /\ handlers = TaskType
  /\ now = 0
  /\ pc = <<>>
  /\ statusLog = <<>>
  /\ dispatched = <<>>
  /\ invoked = <<>>
  /\ outcome = <<>>
  /\ registry = {}
  /\ cache = <<>>
  /\ files = <<>>
  /\ putLog = <<>>
  /\ ret = NoCall
  /\ swept = 0
  /\ runs = <<>>
  /\ tmp = {}
  /\ done = NoInvocation
  /\ started = 0
  /\ reply = NoReply

\* a request with the right token
Authorized(route) == Request(route, "secret", "secret", "")

\* the types a submission can have: a task that finds the worker idle, and
\* so starts at once, is a run
WhenIdleRun(types) == IF activeWorkers = 0 THEN types \cap {"run"} ELSE types

\* SpecServer: authorized submissions over uploads, which
\* expire while tasks wait for the one worker; the clock is followed while a
\* task waits; every sandbox call succeeds but the compilation, which fails
NextServer ==
  \/ Len(putLog) < HandlerPuts /\ postUpload(Authorized("POST /upload"))
  \/ \E type \in WhenIdleRun({"compile", "compile-checker"}) :
       Len(tasks) < ServerTasks
         /\ postCompile(type, Authorized("POST /compile"), 1, TRUE)
  \/ \E type \in WhenIdleRun({"judge"}) :
       Len(tasks) < ServerTasks
         /\ postJudge(Authorized("POST /judge"), 1, 1, 1, <<"i", "c", "m", "p">>, TRUE)
  \/ \E type \in WhenIdleRun({"run"}) :
       Len(tasks) < ServerTasks /\ postRun(Authorized("POST /run"), 1, 1, TRUE)
  \/ \E type \in WhenIdleRun({"interactive"}) :
       Len(tasks) < ServerTasks
         /\ postInteractive(Authorized("POST /interactive"), 1, 1, 0, TRUE)
  \/ \E n \in 1..started : RunProgramReturns(n, 1, 0)
  \/ \E n \in 1..started : CompileCheckerReturns(n)
  \/ \E n \in 1..started : RunCheckerReturns(n, ScoreUnit)
  \/ \E n \in 1..started : RunInteractiveReturns(n, "accepted")
  \/ \E n \in 1..started : CompileReturns(n, FALSE, FALSE, TRUE, TRUE)
  \/ \E id \in Ids : settle(id)
  \/ \E id \in Ids : released(id)
  \/ cleanupTimer
  \/ heap # <<>> /\ SweepTick

SpecServer == InitServer /\ [][NextServer]_vars

\* the ids a request names: the first upload and an id that is never drawn
RequestIds == {1, HandlerPuts + 1}

\* the ids a body can hold: those, and 0 for a field left out
BodyIds == {0} \cup RequestIds

\* SpecTtl: an upload that is read, tested, refreshed, used by a run, and
\* that expires and is swept; the clock is followed while no task runs
NextTtl ==
  \/ Len(putLog) < HandlerPuts /\ postUpload(Authorized("POST /upload"))
  \/ \E b \in RequestIds :
       Len(tasks) < RouteTasks /\ postRun(Authorized("POST /run"), b, 1, TRUE)
  \/ \E cacheId \in RequestIds : getCacheRoute(Authorized("GET /cache"), cacheId)
  \/ getStatusRoute(Authorized("GET /status"))
  \/ \E id \in RequestIds : Refresh(id)
  \/ \E n \in 1..started : RunProgramReturns(n, 1, 0)
  \/ \E id \in Ids : settle(id)
  \/ \E id \in Ids : released(id)
  \/ cleanupTimer
  \/ activeWorkers = 0 /\ SweepTick

SpecTtl == InitServer /\ [][NextTtl]_vars

\* SpecSubmit: authorized submissions of every type, with fields left out and
\* handles that were never uploaded or have expired; every sandbox call
\* succeeds but the compilation, which fails; the clock is followed while no
\* task runs
NextSubmit ==
  \/ Len(putLog) < HandlerPuts /\ postUpload(Authorized("POST /upload"))
  \/ \E type \in {"compile", "compile-checker"}, id \in BodyIds :
       Len(tasks) < RouteTasks
         /\ postCompile(type, Authorized("POST /compile"), id, TRUE)
  \/ \E b \in BodyIds, o \in BodyIds :
       Len(tasks) < RouteTasks
         /\ postJudge(Authorized("POST /judge"), b, 1, o, <<"i", "c", "m", "p">>, TRUE)
  \/ \E b \in BodyIds, i \in BodyIds :
       Len(tasks) < RouteTasks /\ postRun(Authorized("POST /run"), b, i, TRUE)
  \/ \E u \in BodyIds, i \in BodyIds :
       Len(tasks) < RouteTasks
         /\ postInteractive(Authorized("POST /interactive"), u, 1, i, TRUE)
  \/ \E n \in 1..started : RunProgramReturns(n, 1, 0)
  \/ \E n \in 1..started : CompileCheckerReturns(n)
  \/ \E n \in 1..started : RunCheckerReturns(n, ScoreUnit)
  \/ \E n \in 1..started : RunInteractiveReturns(n, "accepted")
  \/ \E n \in 1..started : CompileReturns(n, FALSE, FALSE, TRUE, TRUE)
  \/ \E id \in Ids : settle(id)
  \/ \E id \in Ids : released(id)
  \/ cleanupTimer
  \/ activeWorkers = 0 /\ SweepTick

SpecSubmit == InitServer /\ [][NextSubmit]_vars

\* SpecVerdicts: authorized submissions of every type at one instant, and
\* every outcome of the sandbox calls and of the staging
NextVerdicts ==
  \/ Len(putLog) < HandlerPuts /\ postUpload(Authorized("POST /upload"))
  \/ \E type \in {"compile", "compile-checker"} :
       Len(tasks) < RouteTasks
         /\ postCompile(type, Authorized("POST /compile"), 1, TRUE)
  \/ \E checkerName \in {<<"i", "c", "m", "p">>, uuidv4(HandlerPuts + 1)},
        staged \in BOOLEAN :
       Len(tasks) < RouteTasks
         /\ postJudge(Authorized("POST /judge"), 1, 1, 1, checkerName, staged)
  \/ \E staged \in BOOLEAN :
       Len(tasks) < RouteTasks
         /\ postRun(Authorized("POST /run"), 1, 1, staged)
  \/ \E staged \in BOOLEAN :
       Len(tasks) < RouteTasks
         /\ postInteractive(Authorized("POST /interactive"), 1, 1, 0, staged)
  \/ \E n \in 1..started, status \in 1..4, code \in ExitCodes :
       RunProgramReturns(n, status, code)
  \/ \E n \in 1..started : CompileCheckerReturns(n)
  \/ \E n \in 1..started, normalizedScore \in {0, 1, ScoreUnit} :
       RunCheckerReturns(n, normalizedScore)
  \/ \E n \in 1..started, verdict \in InteractiveVerdicts :
       RunInteractiveReturns(n, verdict)
  \/ \E n \in 1..started, success \in BOOLEAN, readOk \in BOOLEAN :
       CompileReturns(n, success, success, readOk, TRUE)
  \/ \E n \in 1..started : SandboxThrows(n)
  \/ \E n \in 1..started : CompileThrows(n)
  \/ \E id \in Ids : settle(id)
  \/ \E id \in Ids : released(id)

SpecVerdicts == InitServer /\ [][NextVerdicts]_vars

\* SpecRoutes: every route, with and without JUDGE_TOKEN, with the token
\* right, wrong or missing in the header and in the query
NextRoutes ==
  \/ \E env \in EnvTokens, header \in ClientTokens, query \in ClientTokens :
       \/ Len(putLog) < HandlerPuts
            /\ postUpload(Request("POST /upload", env, header, query))
       \/ \E type \in {"compile", "compile-checker"} :
            Len(tasks) < RouteTasks
              /\ postCompile(type, Request("POST /compile", env, header, query),
                             1, TRUE)
       \/ Len(tasks) < RouteTasks
            /\ postJudge(Request("POST /judge", env, header, query), 1, 1, 1,
                         <<"i", "c", "m", "p">>, TRUE)
       \/ Len(tasks) < RouteTasks
            /\ postRun(Request("POST /run", env, header, query), 1, 1, TRUE)
       \/ Len(tasks) < RouteTasks
            /\ postInteractive(Request("POST /interactive", env, header, query),
                               1, 1, 0, TRUE)
       \/ \E taskId \in 1..RouteTasks :
            getTaskRoute(Request("GET /task", env, header, query), taskId)
       \/ \E cacheId \in RequestIds :
            getCacheRoute(Request("GET /cache", env, header, query), cacheId)
       \/ getStatusRoute(Request("GET /status", env, header, query))
  \/ getHealth
  \/ \E n \in 1..started : RunProgramReturns(n, 1, 0)
  \/ \E n \in 1..started : CompileCheckerReturns(n)
  \/ \E n \in 1..started : RunCheckerReturns(n, ScoreUnit)
  \/ \E n \in 1..started : RunInteractiveReturns(n, "accepted")
  \/ \E n \in 1..started : CompileReturns(n, FALSE, FALSE, TRUE, TRUE)
  \/ \E id \in Ids : settle(id)
  \/ \E id \in Ids : released(id)

SpecRoutes == InitServer /\ [][NextRoutes]_vars

\* ---- properties ------------------------------------------------------------
Terminal(st) == st \in {COMPLETED, FAILED}

Occurrences(seq, x) == Cardinality({i \in 1..Len(seq) : seq[i] = x})

DispatchedIds == {dispatched[i].id : i \in 1..Len(dispatched)}

\* C1 (as stated): activeWorkers never exceeds the current concurrency cap,
\* under any interleaving of addTask, setConcurrency and completions.
C1_NeverAboveCap == activeWorkers <= concurrency

\* C1 (amended): no step raises activeWorkers above the cap in force after the
\* step; activeWorkers exceeds the cap only because setConcurrency lowered the
\* cap under the running tasks, and from there it only falls.
C1_NoStepExceedsCap ==
  [][activeWorkers' <= Max(concurrency', activeWorkers)]_vars

\* C1 witness: the cap was lowered under two running tasks while a task waits
C1_Witness == activeWorkers > concurrency /\ ~isEmpty(heap)

\* C2: every task is dequeued by exactly one worker and its handler is invoked
\* at most once: it is marked running at most once, it is never both queued
\* and running, and it is in the queue or in runningTasks at most once.
C2_StartedOnce ==
  \A id \in Ids :
    /\ invoked[id] <= 1
    /\ Occurrences(statusLog[id], RUNNING) <= 1
    /\ Occurrences(heap, id) + Occurrences(runningTasks, id) <= 1

\* C2 witness: two workers run two different tasks after a third was released
C2_Witness ==
  \E a, b, c \in Ids :
    /\ a # b /\ pc[a] = "awaiting" /\ pc[b] = "awaiting"
    /\ pc[c] = "released" /\ invoked[c] = 1

\* C3: the values assigned to a task's status follow pending -> running ->
\* completed or pending -> running -> failed, with no step skipped or undone.
C3_StatusPath ==
  \A id \in Ids :
    /\ statusLog[id] \in {<<PENDING>>, <<PENDING, RUNNING>>,
                          <<PENDING, RUNNING, COMPLETED>>,
                          <<PENDING, RUNNING, FAILED>>}
    /\ tasks[id].status = statusLog[id][Len(statusLog[id])]

\* C3 witness: one task completed, one failed for want of a handler
C3_Witness ==
  \E a, b \in Ids :
    /\ tasks[a].status = COMPLETED
    /\ tasks[b].status = FAILED /\ invoked[b] = 0

\* C4: once a task is completed or failed, its record never changes again.
C4_TerminalFrozen ==
  [][\A id \in Ids : Terminal(tasks[id].status) => tasks'[id] = tasks[id]]_vars

\* C4 witness: a task finished and was released, the clock moved on and the
\* scheduler started a later task
C4_Witness ==
  \E a, b \in Ids :
    /\ pc[a] = "released" /\ tasks[a].completedAt < now
    /\ a < b /\ tasks[b].status = RUNNING /\ tasks[b].startedAt = now

C6_HighestPriorityFirst ==
  \A i \in 1..Len(dispatched) :
    \A u \in dispatched[i].pending :
      tasks[u].priority <= tasks[dispatched[i].id].priority

\* C6 witness: serial workers; P0 ran to its end, and when its slot was freed
\* P10 was started while P5 went on waiting
C6_Witness ==
  /\ concurrency = 1
  /\ \E p0, p10, p5 \in Ids :
       /\ tasks[p0].priority = 0 /\ tasks[p10].priority = 10
       /\ tasks[p5].priority = 5
       /\ p0 < p10 /\ p0 < p5
       /\ tasks[p0].status = COMPLETED /\ pc[p0] = "released"
       /\ dispatched = <<[id |-> p10, by |-> "finally", pending |-> {p5}]>>
       /\ tasks[p5].status = PENDING

\* C7: among pending tasks of equal priority the one submitted first starts
\* first, whatever timestamps the millisecond clock gave them (ids are
\* handed out in submission order).
C7_FifoAmongEqualPriority ==
  \A i \in 1..Len(dispatched) :
    \A u \in dispatched[i].pending :
      tasks[u].priority = tasks[dispatched[i].id].priority
        => dispatched[i].id < u

\* C8: work conservation: the queue is non-empty only if activeWorkers has
\* reached the cap.
C8_WorkConserving == ~isEmpty(heap) => activeWorkers >= concurrency

\* C8 witness: after a completion was processed, two workers are busy, the cap
\* is reached and a task waits
C8_Witness ==
  /\ ~isEmpty(heap) /\ concurrency >= 2 /\ activeWorkers = concurrency
  /\ \E id \in Ids : pc[id] = "released"

\* C9: activeWorkers is at most the number of submitted tasks that are not
\* yet completed or failed.
C9_ActiveAtMostUnfinished ==
  activeWorkers <= Cardinality({id \in Ids : ~Terminal(tasks[id].status)})

InQueueOrder(T, log) ==
  \A i \in 1..Len(log) : \A u \in log[i].pending : compare(T, log[i].id, u) <= 0

\* what a raise of the cap does in one step, k being the number of tasks
\* it is to start: exactly k tasks leave the queue in queue order and are
\* marked running, and no running task has to finish for it
RaiseStarts(k) ==
  /\ Len(dispatched') = k
  /\ activeWorkers' = activeWorkers + k
  /\ Len(heap') = Len(heap) - k
  /\ \A i \in 1..Len(dispatched') :
       /\ dispatched'[i].by = "setConcurrency"
       /\ statusLog[dispatched'[i].id] = <<PENDING>>
       /\ statusLog'[dispatched'[i].id][2] = RUNNING
  /\ InQueueOrder(tasks', dispatched')
  /\ \A id \in Ids : pc[id] \in {"awaiting", "settled"} => pc'[id] = pc[id]

\* C10 (as stated): when setConcurrency raises the cap to n while tasks are
\* pending, min(n - activeWorkers, queueSize) pending tasks move to running
\* within the call, in queue order, without waiting for a running task.
C10_RaiseStartsMin ==
  [][(concurrency' > concurrency /\ ~isEmpty(heap))
       => RaiseStarts(Min(concurrency' - activeWorkers, size(heap)))]_vars

\* C10 (amended): the number of tasks started is
\* max(0, min(n - activeWorkers, queueSize)): none when more tasks are still
\* running than the raised cap allows.
C10_RaiseStartsUpToCap ==
  [][(concurrency' > concurrency /\ ~isEmpty(heap))
       => RaiseStarts(Max(0, Min(concurrency' - activeWorkers, size(heap))))]_vars

\* C10 witness: a raise started a task beside a handler still in flight, and
\* left another task waiting
C10_Witness ==
  /\ Len(dispatched) >= 1 /\ dispatched[1].by = "setConcurrency"
  /\ \E id \in Ids : pc[id] = "awaiting" /\ id \notin DispatchedIds
  /\ ~isEmpty(heap)

\* C11: running tasks are never preempted: no step takes a running task back
\* to pending or into the queue; a submission (of whatever priority) and a
\* change of the cap leave every running task's record and promise chain as
\* they are; and a step starts pending tasks only if activeWorkers is within
\* the cap after it, so that after a decrease below the number of running
\* tasks nothing starts until activeWorkers has dropped below the new cap.
C11_NoPreemption ==
  [][/\ \A id \in Ids : tasks[id].status = RUNNING =>
          /\ tasks'[id].status \in {RUNNING, COMPLETED, FAILED}
          /\ Occurrences(heap', id) = 0
          /\ (Len(tasks') > Len(tasks) \/ concurrency' # concurrency) =>
                /\ tasks'[id] = tasks[id]
                /\ pc'[id] = pc[id]
                /\ Occurrences(runningTasks', id) = 1
     /\ dispatched' # <<>> => activeWorkers' <= concurrency'
     /\ ((Len(tasks') > Len(tasks) \/ concurrency' # concurrency)
           /\ activeWorkers >= concurrency') => dispatched' = <<>>]_vars

\* C11 witness: the cap was lowered under running tasks of priority 0, and a
\* task of priority 10 submitted after them waits
C11_Witness ==
  /\ activeWorkers > concurrency
  /\ \E r, p \in Ids :
       /\ r < p
       /\ pc[r] = "awaiting" /\ tasks[r].priority = 0
       /\ tasks[p].status = PENDING /\ tasks[p].priority = 10

\* C12: whatever the handler does, the task ends completed or failed: a
\* settled task is terminal, completed if the handler returned, failed with
\* the message of the thrown value if it threw (the text of the value when
\* it is no Error) and failed with "No handler registered" if its type has
\* no handler; a worker slot is held exactly by the tasks between their
\* dispatch and their .finally callback, so each release is counted once;
\* and the scheduler never leaves a task waiting beside a free slot.
C12_EveryOutcomeEndsTask ==
  /\ \A id \in Ids :
       /\ pc[id] \in {"settled", "released"} => Terminal(tasks[id].status)
       /\ outcome[id].kind = "returned" => tasks[id].status = COMPLETED
       /\ outcome[id].kind = "threw" =>
            /\ tasks[id].status = FAILED
            /\ tasks[id].error = IF outcome[id].value = Null
                                   THEN "null" ELSE outcome[id].value
       /\ (pc[id] \in {"settled", "released"} /\ invoked[id] = 0) =>
            /\ tasks[id].status = FAILED
            /\ tasks[id].error = "No handler registered"
  /\ activeWorkers = Cardinality({id \in Ids : pc[id] \in {"awaiting", "settled"}})
  /\ Len(runningTasks) = activeWorkers
  /\ ~isEmpty(heap) => activeWorkers >= concurrency

\* C12 witness: a handler threw a value that is no Error, its slot was
\* released, and the release started the next task, whose type has no handler
C12_Witness ==
  \E a, b \in Ids :
    /\ pc[a] = "released" /\ outcome[a] = [kind |-> "threw", value |-> Null]
    /\ dispatched = <<[id |-> b, by |-> "finally", pending |-> {}]>>
    /\ tasks[b].type \notin handlers /\ tasks[b].status = FAILED

\* C13: a handler in flight does not block the scheduler: while a handler h
\* is awaited, getTask answers (with the running record of h), and an
\* addTask step returns with the new task in the registry and h still
\* awaited (addTask has no enabling condition); if a worker slot is free (concurrency >= 2 with one
\* worker busy), that step starts the new task; and another task's handler
\* settles without h having to finish.
C13_HandlerInFlightDoesNotBlock ==
  [][\A h \in Ids : pc[h] = "awaiting" =>
       /\ getTask(registry, tasks, h) = tasks[h]
       /\ tasks[h].status = RUNNING
       /\ Len(tasks') = Len(tasks) + 1 =>
            LET n == Len(tasks') IN
            /\ getTask(registry', tasks', n) = tasks'[n]
            /\ pc'[h] = "awaiting"
            /\ activeWorkers < concurrency =>
                 /\ n \in {dispatched'[i].id : i \in 1..Len(dispatched')}
                 /\ statusLog'[n][2] = RUNNING
       /\ \A n \in Ids \ {h} :
            (pc[n] = "awaiting" /\ pc'[n] = "settled") =>
              /\ Terminal(tasks'[n].status)
              /\ pc'[h] = "awaiting" /\ tasks'[h] = tasks[h]]_vars

\* C13 witness: the first task's handler is still in flight (it was started
\* by its own addTask), and a task added after it ran its handler to the
\* end and was released
C13_Witness ==
  /\ concurrency >= 2
  /\ Len(pc) >= 2 /\ pc[1] = "awaiting"
  /\ \E n \in Ids : n > 1 /\ invoked[n] = 1 /\ pc[n] = "released"
                      /\ tasks[n].status = COMPLETED

\* C14: a step of addTask creates a fresh task record whose first status is
\* pending and whose result is null, enters it in the registry, and returns
\* with the task either still in the queue (pending, no error) or already
\* dispatched by the same call: then its handler is awaited and has not
\* settled, or its type has no handler and it has failed for that reason;
\* getTask(id) finds the record as soon as the step is over.
C14_AddTaskRegistersPending ==
  [][Len(tasks') = Len(tasks) + 1 =>
       LET id == Len(tasks') IN
       /\ id \notin registry /\ registry' = registry \cup {id}
       /\ id \in registry' => getTask(registry', tasks', id) = tasks'[id]
       /\ statusLog'[id][1] = PENDING
       /\ tasks'[id].createdAt = now
       /\ tasks'[id].result = Null
       /\ outcome'[id].kind = "none"
       /\ \/ /\ pc'[id] = "queued" /\ Occurrences(heap', id) = 1
             /\ tasks'[id].status = PENDING /\ tasks'[id].error = Null
          \/ /\ pc'[id] = "awaiting" /\ Occurrences(heap', id) = 0
             /\ tasks'[id].status = RUNNING /\ tasks'[id].error = Null
          \/ /\ pc'[id] = "settled" /\ Occurrences(heap', id) = 0
             /\ tasks'[id].type \notin handlers
             /\ tasks'[id].status = FAILED]_vars

\* C14 witness: addTask returned with the new task already handed to its
\* handler, which has not settled, beside an earlier handler in flight
C14_Witness ==
  \E id, h \in Ids :
    /\ h < id /\ pc[h] = "awaiting"
    /\ dispatched = <<[id |-> id, by |-> "addTask", pending |-> {}]>>
    /\ pc[id] = "awaiting" /\ id \in registry
    /\ outcome[id].kind = "none" /\ tasks[id].result = Null

\* C15: the retention sweep removes only completed or failed tasks, never a
\* pending or running one; it removes something only when more than
\* KeepLimit terminal tasks are registered, and then exactly KeepLimit
\* terminal tasks stay, each completed no earlier than any evicted one.
C15_SweepKeepsLatest ==
  [][(Len(tasks') = Len(tasks) /\ registry' # registry) =>
       LET removed == registry \ registry'
           before == completedTasks(registry, tasks)
           kept == completedTasks(registry', tasks)
       IN /\ registry' \subseteq registry
          /\ tasks' = tasks
          /\ \A id \in removed : Terminal(tasks[id].status)
          /\ \A id \in registry : ~Terminal(tasks[id].status) => id \in registry'
          /\ Cardinality(before) > KeepLimit
          /\ Cardinality(kept) = KeepLimit
          /\ \A k \in kept, r \in removed :
               tasks[k].completedAt >= tasks[r].completedAt]_vars

\* C15 witness: the sweep evicted the task that completed first, and kept
\* the later finished ones beside a running and a pending task
C15_Witness ==
  \E old, run, wait \in Ids :
    /\ old \notin registry /\ tasks[old].status = COMPLETED
    /\ Cardinality(completedTasks(registry, tasks)) = KeepLimit
    /\ \E k \in completedTasks(registry, tasks) :
         tasks[k].completedAt > tasks[old].completedAt
    /\ run \in registry /\ tasks[run].status = RUNNING
    /\ wait \in registry /\ tasks[wait].status = PENDING

\* C16: handles are immutable: as long as the item of a completed put is in
\* the index and not expired (now <= expiresAt), its file exists and holds
\* the bytes passed to that put, and get finds it; the bytes a get hands to
\* its caller are the bytes of the put that returned the handle; and an item
\* that is not expired leaves the index only by a delete of its handle,
\* whatever puts, gets, refreshes and sweeps come in between.
C16_HandlesImmutable ==
  /\ [](\A i \in 1..Len(putLog) :
          LET id == putLog[i].id IN
          /\ (putLog[i].written /\ id \in DOMAIN cache
                /\ now <= cache[id].expiresAt) =>
               /\ existsSync(files, cache[id].filePath)
               /\ files[cache[id].filePath] = putLog[i].data
               /\ get(Store, id, now).value = "item"
          /\ (ret.op = "get" /\ ret.value = "item" /\ ret.id = id) =>
               ret.bytes = putLog[i].data)
  /\ [][\A id \in DOMAIN cache :
          (now <= cache[id].expiresAt /\ ~(ret'.op = "delete" /\ ret'.id = id))
            => id \in DOMAIN cache']_vars

\* C16 witness: after a second put with other bytes and a refresh, a get of
\* the first handle past its original expiry returned the first put's bytes
C16_Witness ==
  /\ Len(putLog) = 2 /\ putLog[1].data = "bytesA" /\ putLog[2].data = "bytesB"
  /\ DOMAIN cache = {1, 2}
  /\ now > cache[1].createdAt + CACHE_TTL
  /\ ret = [op |-> "get", id |-> 1, value |-> "item", bytes |-> "bytesA",
            io |-> <<"existsSync">>]

\* an item is live when it is in the index, not past expiresAt, and its file
\* is there; Absent is the contrary
Absent(id) ==
  \/ id \notin DOMAIN cache
  \/ now > cache[id].expiresAt
  \/ ~existsSync(files, cache[id].filePath)

\* C17: get(id) returns null exactly when id is not in the index, or
\* now > expiresAt, or the file is missing (at now = expiresAt the item is
\* still returned); when it returns null the id is out of the index, and a
\* following get or has reports it absent; when it returns the item, index
\* and files are left as they were.
C17_GetNoneIffAbsent ==
  /\ [](\A id \in CacheIds :
          LET r == get(Store, id, now) IN
          /\ r.value = "null" <=> Absent(id)
          /\ r.value = "null" =>
               /\ id \notin DOMAIN r.store.cache
               /\ get(r.store, id, now).value = "null"
               /\ has(r.store, id, now).value = "false"
          /\ r.value = "item" =>
               r.store.cache = cache /\ r.store.files = files)
  /\ [][(ret' # ret /\ ret'.op = "get") =>
          /\ ret'.value = "null" <=> Absent(ret'.id)
          /\ ret'.value = "null" => ret'.id \notin DOMAIN cache'
          /\ ret'.value = "item" => cache' = cache /\ files' = files]_vars

\* C17 witness: at now = expiresAt a get returned the item; another handle,
\* whose file is gone, is out of the index
C17_Witness ==
  \E a, b \in CacheIds :
    /\ a \in DOMAIN cache /\ now = cache[a].expiresAt
    /\ ret.op = "get" /\ ret.id = a /\ ret.value = "item"
    /\ b <= Len(putLog) /\ b \notin DOMAIN cache
    /\ ~existsSync(files, filePathOf("binary", b))

\* C18: has(id) is true exactly when get(id) in the same state would return
\* the item, and has performs no file-system operation.
C18_HasSameAsGet ==
  \A id \in CacheIds :
    /\ has(Store, id, now).value = "true" <=> get(Store, id, now).value = "item"
    /\ has(Store, id, now).store.io = <<>>

\* C19: refresh(id) returns true and sets expiresAt to now + TTL exactly
\* when the item is live (in the index, file present, not expired), leaving
\* the files unchanged; otherwise it returns false and changes nothing.
C19_RefreshIffLive ==
  \A id \in CacheIds :
    LET r == refresh(Store, id, now) IN
    /\ r.value = "true" <=> ~Absent(id)
    /\ r.value = "true" =>
         /\ r.store.cache = [cache EXCEPT ![id].expiresAt = now + CACHE_TTL]
         /\ r.store.files = files
    /\ r.value = "false" => r.store.cache = cache /\ r.store.files = files

\* C20: put is write-then-publish: every id in the index was entered by a
\* set whose writeFileSync had completed, and its file is on disk; a set
\* whose write threw left no index entry.
C20_WriteThenPublish ==
  /\ \A id \in DOMAIN cache :
       /\ \E i \in 1..Len(putLog) : putLog[i].id = id /\ putLog[i].written
       /\ existsSync(files, cache[id].filePath)
  /\ (ret.op = "set" /\ ret.value = "threw") => ret.id \notin DOMAIN cache

\* C20 witness: after a set whose write threw, a second set wrote its file
\* and entered its id in the index
C20_Witness ==
  /\ Len(putLog) = 2 /\ ~putLog[1].written /\ putLog[2].written
  /\ ret.op = "set" /\ ret.value = "id" /\ ret.id = 2
  /\ DOMAIN cache = {2} /\ files[cache[2].filePath] = putLog[2].data

\* C21: whenever the cache destroys an artifact, the index entry is erased
\* before the file is removed: in every call, each unlinkSync comes after
\* the Map.delete of the same item, so that no handle is still in the index
\* when its file has been removed.
C21_IndexErasedBeforeFile ==
  \A i \in 1..Len(ret.io) :
    ret.io[i] = "unlinkSync" =>
      Cardinality({j \in 1..i : ret.io[j] = "Map.delete"})
        >= Cardinality({j \in 1..i : ret.io[j] = "unlinkSync"})

\* C22: the sweep period is at most a fifth of the TTL and the timer fires
\* at that fixed period; a sweep removes every item with now > expiresAt
\* from the index, with its file, and leaves the others as they are; so no
\* item is in the index later than one period after its expiry.
C22_SweepBoundsStaleness ==
  /\ [](/\ CLEANUP_INTERVAL_MS * 5 <= CACHE_TTL_MS
        /\ now <= swept + SweepPeriod
        /\ \A id \in DOMAIN cache : now <= cache[id].expiresAt + SweepPeriod)
  /\ [][swept' # swept =>
          /\ swept' = swept + SweepPeriod
          /\ DOMAIN cache' = {id \in DOMAIN cache : now <= cache[id].expiresAt}
          /\ \A id \in DOMAIN cache' : cache'[id] = cache[id]
          /\ \A id \in DOMAIN cache :
               existsSync(files', cache[id].filePath)
                 <=> (id \in DOMAIN cache' /\ existsSync(files, cache[id].filePath))]_vars

\* C22 witness: the timer has just fired and swept an expired item, with
\* its file, beside an item that had been refreshed and stays
C22_Witness ==
  /\ swept = now /\ ret.op = "cleanup"
  /\ ret.io = <<"existsSync", "unlinkSync", "Map.delete">>
  /\ \E id \in DOMAIN cache : cache[id].expiresAt > cache[id].createdAt + CACHE_TTL

\* C23: a set whose file write fails raises to its caller and leaves the
\* index as it was: no item is entered and no id is returned.
C23_FailedPutLeavesIndex ==
  [][(Len(putLog') = Len(putLog) + 1 /\ ~putLog'[Len(putLog')].written) =>
       /\ cache' = cache
       /\ ret'.op = "set" /\ ret'.value = "threw"
       /\ ret'.id \notin DOMAIN cache']_vars

\* C23 witness: the second set threw on its write; the index holds the item
\* of the first set and nothing else
C23_Witness ==
  /\ Len(putLog) = 2 /\ putLog[1].written /\ ~putLog[2].written
  /\ ret.op = "set" /\ ret.value = "threw" /\ ret.id = 2
  /\ DOMAIN cache = {1}

\* every handler invocation of kind judge that is in flight or finished last
JudgeRecords ==
  {r \in {runs[n] : n \in DOMAIN runs} : r.kind = "judge"}
    \cup (IF done.kind = "judge"
            THEN {[n |-> done.n, kind |-> done.kind, pc |-> "done",
                   tempDir |-> done.tempDir, checkerName |-> done.checkerName,
                   calls |-> done.calls, useTestlib |-> done.useTestlib,
                   run |-> done.run, paths |-> done.paths,
                   inputCacheId |-> done.inputCacheId,
                   submissionId |-> done.submissionId]}
            ELSE {})

CheckerCalls == {"cacheManager.get", "compileChecker", "runChecker"}

Called(r, call) == \E i \in 1..Len(r.calls) : r.calls[i] = call

\* C24: the judge handler's verdict is a total function of the sandbox's
\* results: status 2 gives time-limit-exceeded, status 3
\* memory-limit-exceeded, any other status or status 1 with a non-zero code
\* runtime-error, and the handler returns in each of these cases; after
\* status 1 with code 0 the verdict is accepted for normalizedScore >= 1,
\* partial-accepted for 0 < normalizedScore < 1 and wrong-answer for
\* normalizedScore <= 0.
C24_JudgeVerdictTotal ==
  (done.kind = "judge" /\ done.run # NoResult) =>
    LET s == done.run.status
        c == done.run.code
    IN /\ ~(s = 1 /\ c = 0) =>
            /\ done.outcome = "returned"
            /\ done.status = getJudgeStatus(s, c)
       /\ done.outcome = "returned" =>
            /\ s = 2 => done.status = "time-limit-exceeded"
            /\ s = 3 => done.status = "memory-limit-exceeded"
            /\ (s \notin {1, 2, 3} \/ (s = 1 /\ c # 0))
                 => done.status = "runtime-error"
            /\ (s = 1 /\ c = 0) =>
                 /\ done.score \in Scores
                 /\ done.score >= ScoreUnit => done.status = "accepted"
                 /\ (0 < done.score /\ done.score < ScoreUnit)
                      => done.status = "partial-accepted"
                 /\ done.score <= 0 => done.status = "wrong-answer"

\* C24 witness: a judge invocation returned accepted on a score of exactly 1
C24_Witness ==
  /\ done.kind = "judge" /\ done.outcome = "returned"
  /\ done.run = [status |-> 1, code |-> 0]
  /\ done.score = ScoreUnit /\ done.status = "accepted"

\* C25: in the judge handler the checker is resolved and run only after
\* runProgram returned status 1 with code 0; on time-limit-exceeded,
\* memory-limit-exceeded and runtime-error the handler has made no checker
\* call and its result carries no checkerMessage.
C25_CheckerOnlyAfterCleanExit ==
  /\ \A r \in JudgeRecords :
       (\E call \in CheckerCalls : Called(r, call))
         => r.run = [status |-> 1, code |-> 0]
  /\ (/\ done.kind = "judge" /\ done.outcome = "returned"
      /\ done.status \in {"time-limit-exceeded", "memory-limit-exceeded",
                          "runtime-error"})
       => /\ done.calls = <<"runProgram">>
          /\ ~done.checkerMessage

\* C25 witness: a judge invocation with a built-in checker stopped on
\* status 1 with exit code 1
C25_Witness ==
  /\ done.kind = "judge" /\ done.outcome = "returned"
  /\ done.run = [status |-> 1, code |-> 1]
  /\ done.status = "runtime-error"
  /\ done.checkerName = <<"i", "c", "m", "p">>
  /\ done.calls = <<"runProgram">>

\* C26: a judge invocation whose checkerName has UUID syntax and whose
\* checker handle is missing or expired ends with a 'not found or expired'
\* error whatever runProgram returned.
C26_MissingCheckerAlwaysFails ==
  [][(/\ done' # done
      /\ done'.kind = "judge"
      /\ done'.n \in DOMAIN runs
      /\ runs[done'.n].pc = "runProgram"
      /\ done'.run # NoResult
      /\ isCustomChecker(done'.checkerName)
      /\ Absent(cacheKey(done'.checkerName)))
       => /\ done'.outcome = "threw"
          /\ done'.error = "Custom checker cache not found or expired"]_vars

HexChars ==
  {"0", "1", "2", "3", "4", "5", "6", "7", "8", "9", "a", "b", "c", "d", "e",
   "f", "A", "B", "C", "D", "E", "F"}

HexGroup(text, first, last) == \A i \in first..last : text[i] \in HexChars

\* the 8-4-4-4-12 syntax, in either case
UuidSyntax(text) ==
  /\ Len(text) = 36
  /\ HexGroup(text, 1, 8) /\ text[9] = "-"
  /\ HexGroup(text, 10, 13) /\ text[14] = "-"
  /\ HexGroup(text, 15, 18) /\ text[19] = "-"
  /\ HexGroup(text, 20, 23) /\ text[24] = "-"
  /\ HexGroup(text, 25, 36)

\* C27: checker resolution is dual-mode. Once the program has exited
\* cleanly, a checkerName of UUID syntax (in either case) has been looked up
\* in the cache, never compiled, and its checker runs with useTestlib; any
\* other name has been passed to compileChecker, never looked up in the
\* cache, and its checker runs with useTestlib exactly when the name is one
\* of the 19 testlib names.
C27_DualModeResolution ==
  /\ Cardinality(TESTLIB_CHECKERS) = 19
  /\ \A r \in JudgeRecords :
       r.run = [status |-> 1, code |-> 0] =>
         IF UuidSyntax(r.checkerName)
           THEN /\ Called(r, "cacheManager.get")
                /\ ~Called(r, "compileChecker")
                /\ Called(r, "runChecker") => r.useTestlib
           ELSE /\ Called(r, "compileChecker")
                /\ ~Called(r, "cacheManager.get")
                /\ Called(r, "runChecker") =>
                     (r.useTestlib <=> r.checkerName \in TESTLIB_CHECKERS)

\* C27 witness: a name of UUID syntax in capitals was looked up in the
\* cache, where no key is written so, and the invocation failed
C27_Witness ==
  /\ done.kind = "judge" /\ done.outcome = "threw"
  /\ done.checkerName = toUpperCase(uuidv4(1))
  /\ done.calls = <<"runProgram", "cacheManager.get">>
  /\ ~Absent(1)

\* C28: the run handler's verdict is a total function of the result of
\* runProgram: status 1 with code 0 gives exited-normally, status 1 with
\* another code non-zero-exit, status 2 time-limit-exceeded, status 3
\* memory-limit-exceeded and every other status runtime-error; the run
\* handler calls no checker.
C28_RunVerdictTotal ==
  /\ \A n \in DOMAIN runs :
       runs[n].kind = "run" => runs[n].calls = <<"runProgram">>
  /\ (done.kind = "run" /\ done.run # NoResult) =>
       LET s == done.run.status
           c == done.run.code
       IN /\ done.outcome = "returned"
          /\ done.calls = <<"runProgram">>
          /\ ~done.checkerMessage
          /\ (s = 1 /\ c = 0) => done.status = "exited-normally"
          /\ (s = 1 /\ c # 0) => done.status = "non-zero-exit"
          /\ s = 2 => done.status = "time-limit-exceeded"
          /\ s = 3 => done.status = "memory-limit-exceeded"
          /\ s \notin {1, 2, 3} => done.status = "runtime-error"

\* C28 witness: a run invocation returned non-zero-exit
C28_Witness ==
  /\ done.kind = "run" /\ done.outcome = "returned"
  /\ done.run = [status |-> 1, code |-> 1]
  /\ done.status = "non-zero-exit"

ScratchKinds == {"judge", "run", "interactive"}

\* C29: the scratch directory of a judge, run or interactive invocation is
\* removed when the invocation finishes, however it finishes, and no two
\* invocations use the same directory: the directories that exist are those
\* of the invocations in flight, one for each.
C29_ScratchRemovedAndUnique ==
  /\ tmp = {runs[n].tempDir : n \in DOMAIN runs}
  /\ Cardinality(tmp) = Cardinality(DOMAIN runs)
  /\ \A n \in DOMAIN runs : runs[n].tempDir # <<>>
  /\ (done.kind \in ScratchKinds /\ done.tempDir # <<>>) =>
       /\ done.tempDir \notin tmp
       /\ \A n \in DOMAIN runs : runs[n].tempDir # done.tempDir

\* C29 witness: of two invocations that started at the same instant, one
\* ended on an exception of the sandbox and its directory is gone, the
\* other is in flight in its own directory
C29_Witness ==
  /\ done.kind \in ScratchKinds /\ done.outcome = "threw"
  /\ done.error = "sandbox error"
  /\ done.tempDir # <<>> /\ done.tempDir \notin tmp
  /\ \E n \in DOMAIN runs :
       /\ runs[n].kind = done.kind
       /\ runs[n].tempDir[2] = done.tempDir[2]
       /\ runs[n].tempDir \in tmp

\* C30: a compile or compile-checker invocation to which the sandbox
\* returned a tempDir has asked the sandbox to clean it when it finishes,
\* on success, on success = false and on an exception while the executable
\* is read or cached.
C30_CompileAlwaysCleans ==
  (done.kind \in {"compile", "compile-checker"} /\ done.tempDir # <<>>) =>
    /\ Called(done, "cleanupTempDir")
    /\ done.tempDir \notin tmp

\* C39: scheduler bookkeeping is consistent in every state: the queue holds
\* exactly the pending tasks, runningTasks exactly the running tasks, no
\* task is in both, activeWorkers is the size of runningTasks, and
\* getStatus reports these values.
C39_BookkeepingConsistent ==
  LET queued == {heap[i] : i \in 1..Len(heap)}
      running == {runningTasks[i] : i \in 1..Len(runningTasks)}
  IN /\ queued = {id \in Ids : tasks[id].status = PENDING}
     /\ running = {id \in Ids : tasks[id].status = RUNNING}
     /\ queued \cap running = {}
     /\ activeWorkers = Len(runningTasks)
     /\ getStatus.queueSize = Cardinality(queued)
     /\ getStatus.activeWorkers = Cardinality(running)
     /\ getStatus.concurrency = concurrency
     /\ getStatus.runningTasks = runningTasks

\* the paths a handler invocation passed to the sandbox that lie in the cache
CachePaths(r) == {p \in r.paths : p[1] = "judge-cache"}

\* C38: every file path a handler hands to a sandbox call is a file outside
\* the cache directory (a copy in the handler's scratch directory, or a file
\* of the sandbox), never the cache file itself, so that expiry or sweeping
\* of the artifact cannot touch a running handler.
C38_SandboxNeverGetsCacheFile ==
  /\ \A n \in DOMAIN runs : CachePaths(runs[n]) = {}
  /\ CachePaths(done) = {}

\* C33: an interactive invocation that was given an inputCacheId reaches
\* runInteractive only with that artifact as the interactor's input file
C33_InteractiveInputRequired ==
  /\ \A n \in DOMAIN runs :
       (runs[n].kind = "interactive" /\ runs[n].inputCacheId # 0)
          => \E p \in CachePaths(runs[n]) : p[3] = runs[n].inputCacheId
  /\ (done.kind = "interactive" /\ done.inputCacheId # 0
        /\ Called(done, "runInteractive"))
          => \E p \in CachePaths(done) : p[3] = done.inputCacheId

\* C40: two compile or compile-checker invocations that are both waiting for
\* the sandbox's compile call passed it different submissionIds
C40_SubmissionIdsDistinct ==
  \A m \in DOMAIN runs, n \in DOMAIN runs :
    (m # n /\ runs[m].pc = "compile" /\ runs[n].pc = "compile")
       => runs[m].submissionId # runs[n].submissionId

\* the handles a handler resolves before anything else
RequiredHandles(type, data) ==
  CASE type \in {"compile", "compile-checker"} -> {data.sourceCacheId}
    [] type = "judge" ->
         {data.binaryCacheId, data.inputCacheId, data.outputCacheId}
    [] type = "run" -> {data.binaryCacheId, data.inputCacheId}
    [] type = "interactive" ->
         {data.userBinaryCacheId, data.interactorBinaryCacheId}

\* the artifact is held and has not expired
Live(h) == h \in DOMAIN cache /\ ~isExpired(cache[h], now)

NotFoundErrors ==
  {"Source code cache not found or expired",
   "Checker source code cache not found or expired",
   "Binary cache not found or expired", "Input cache not found or expired",
   "Output cache not found or expired",
   "User binary cache not found or expired",
   "Interactor binary cache not found or expired"}

\* the step invokes the handler of task id
Starts(id) ==
  invoked'[id] > (IF id \in DOMAIN invoked THEN invoked[id] ELSE 0)

\* a task whose handler starts when one of its handles is gone is dispatched
\* all the same, its handler throws "not found or expired" before any sandbox
\* call, and executeTask then marks it failed with that message
C32_Step ==
  \A id \in DOMAIN tasks' :
    /\ (Starts(id) /\ \E h \in RequiredHandles(tasks'[id].type, tasks'[id].data) :
                        ~Live(h))
         => /\ tasks'[id].status = RUNNING
            /\ done'.n = started'
            /\ done'.outcome = "threw"
            /\ done'.error \in NotFoundErrors
            /\ DOMAIN runs' = {}
    /\ (id \in DOMAIN pc /\ pc[id] = "awaiting" /\ pc'[id] = "settled"
          /\ done.outcome = "threw" /\ done.error \in NotFoundErrors)
         => /\ tasks'[id].status = FAILED
            /\ tasks'[id].error = done.error
            /\ tasks'[id].result = Null

\* C32: a task whose handle was live at submission but has expired or been
\* deleted when its handler starts is dispatched without re-validation and
\* ends failed with a "not found or expired" error, not completed
C32_ExpiredHandleFailsTask == [][C32_Step]_vars

\* C32 witness: a task that waited in the queue ended failed on a handle that
\* had gone by the time its handler started
C32_Witness ==
  \E id \in Ids :
    /\ tasks[id].status = FAILED
    /\ tasks[id].error \in NotFoundErrors
    /\ tasks[id].startedAt > tasks[id].createdAt

\* an item enters the cache with expiresAt = insertion time + TTL, and the
\* expiresAt of an item that stays changes only in a call of refresh(id) that
\* returns true, to the time of the call + TTL
C37_Step ==
  /\ \A id \in DOMAIN cache' \ DOMAIN cache :
       /\ cache'[id].createdAt = now
       /\ cache'[id].expiresAt = now + CACHE_TTL
  /\ \A id \in DOMAIN cache' \cap DOMAIN cache :
       cache'[id].expiresAt # cache[id].expiresAt
         => /\ ret'.op = "refresh" /\ ret'.id = id /\ ret'.value = "true"
            /\ ~isExpired(cache[id], now)
            /\ cache'[id].expiresAt = now + CACHE_TTL
            /\ UNCHANGED <<queueVars, invocationVars, reply, putLog>>

\* C37: expiresAt is insertion time + TTL and afterwards changes only through
\* a successful refresh: get, has, the statistics, the sweep, a submission
\* and a handler that consumes the artifact never extend it
C37_OnlyRefreshExtends == [][C37_Step]_vars

\* C37 witness: an artifact that a refresh has renewed was consumed by a run
\* that was submitted, executed and completed
C37_Witness ==
  /\ \E id \in DOMAIN cache : cache[id].expiresAt > cache[id].createdAt + CACHE_TTL
  /\ \E id \in Ids : tasks[id].status = COMPLETED
  /\ reply.req.route = "GET /status"

SubmissionRoutes ==
  {"POST /compile", "POST /judge", "POST /run", "POST /interactive"}

\* the handles a submission route tests: the required ones, and the
\* interactor input when the body gives one
TestedHandles(type, data) ==
  RequiredHandles(type, data)
    \cup (IF type = "interactive" THEN {data.inputCacheId} \ {0} ELSE {})

\* a step that adds a task is a submission answered 200 whose handles are all
\* given, held and unexpired; a submission answered otherwise is answered 400
\* and leaves the Map of tasks and the queue as they were
C34_Step ==
  /\ \A id \in DOMAIN tasks' \ DOMAIN tasks :
       /\ \A h \in RequiredHandles(tasks'[id].type, tasks'[id].data) : h # 0
       /\ \A h \in TestedHandles(tasks'[id].type, tasks'[id].data) : Live(h)
       /\ reply'.req.route \in SubmissionRoutes
       /\ reply'.code = 200
  /\ (reply' # reply /\ reply'.req.route \in SubmissionRoutes
        /\ reply'.code # 200)
       => /\ reply'.code = 400
          /\ UNCHANGED <<tasks, registry, heap, runningTasks, activeWorkers>>

JudgingOutcomes ==
  {"compiled", "compile-failed", "accepted", "partial-accepted",
   "wrong-answer", "time-limit-exceeded", "memory-limit-exceeded",
   "runtime-error", "non-zero-exit", "exited-normally"}

\* C31: a task is completed exactly when its handler returned, with the
\* handler's verdict as result (compile failure, wrong answer, time or memory
\* limit exceeded and runtime error among them) and a null error; it is
\* failed exactly when its handler threw, with the message as error and no
\* result
C31_OutcomeNeverFailsTask ==
  /\ \A id \in Ids :
       /\ tasks[id].status = COMPLETED
            => /\ outcome[id].kind = "returned"
               /\ tasks[id].result \in JudgingOutcomes
               /\ tasks[id].error = Null
       /\ tasks[id].status = FAILED
            => /\ outcome[id].kind = "threw"
               /\ tasks[id].result = Null
               /\ tasks[id].error \notin JudgingOutcomes \cup {Null}
  /\ (done.n \in Ids /\ Terminal(tasks[done.n].status))
       => IF done.outcome = "returned"
            THEN /\ tasks[done.n].status = COMPLETED
                 /\ tasks[done.n].result = done.status
            ELSE /\ tasks[done.n].status = FAILED
                 /\ tasks[done.n].error = done.error

\* C31 witness: a judge task whose program ran cleanly and whose answer the
\* checker refused is completed with the result wrong-answer
C31_Witness ==
  \E id \in Ids :
    /\ tasks[id].type = "judge"
    /\ tasks[id].status = COMPLETED
    /\ tasks[id].result = "wrong-answer"
    /\ tasks[id].error = Null
    /\ done.n = id /\ done.score = 0

\* the response last sent answers a request to a route behind authMiddleware
Protected == reply.req.route \notin {"none", "GET /health"}

\* C35: on every route but GET /health a request is answered 500 when
\* JUDGE_TOKEN is unset, and 401 when it is set and the request carries it
\* neither in the X-Auth-Token header nor in the token query parameter; such
\* a response holds an error text only, and the request adds no task and no
\* cache entry
C35_Unauthorized ==
  /\ [](Protected =>
          /\ reply.req.env = "" => reply.code = 500
          /\ (reply.req.env # "" /\ reply.req.header # reply.req.env
                /\ reply.req.query # reply.req.env) => reply.code = 401
          /\ reply.code \in {401, 500}
               => reply.body \in {"Unauthorized",
                                  "Server misconfigured: JUDGE_TOKEN not set"})
  /\ [][(reply' # reply /\ reply'.code \in {401, 500})
          => UNCHANGED <<queueVars, invocationVars, cache, files, putLog>>]_vars

\* C35 witness: with an upload in the cache, a submission that carries a wrong
\* token in the query and none in the header was answered 401
C35_Witness ==
  /\ reply.req.route = "POST /judge"
  /\ reply.req.env = "secret"
  /\ reply.req.header = ""
  /\ reply.req.query = "guess"
  /\ reply.code = 401
  /\ 1 \in DOMAIN cache
  /\ tasks = <<>>

\* ---- every task finishes ----
Waiting(id) == id \in Ids /\ tasks[id].status = PENDING
Finished(id) == id \in Ids /\ tasks[id].status \in {COMPLETED, FAILED}

\* a queued task that the queue ranks at or before the queued task id
Overtaken(id) ==
  /\ id \in Ids
  /\ pc[id] = "queued"
  /\ \E j \in Ids \ {id} : pc[j] = "queued" /\ compare(tasks, j, id) <= 0

\* C36 as stated: every task added eventually reaches completed or failed,
\* whatever addTask and setConcurrency calls follow
C36_EveryTaskFinishes ==
  \A id \in 1..LiveTasks : Waiting(id) ~> Finished(id)

\* C36: every task added eventually reaches completed or failed, unless tasks
\* that the queue ranks at or before it are waiting with it again and again
\* without end
C36_FinishesUnlessOvertaken ==
  \A id \in 1..LiveTasks :
     <>[]~Overtaken(id) => (Waiting(id) ~> Finished(id))

\* C36 witness: under one worker a task of priority 0 has failed and is still
\* in the Map, while tasks of priority 10 at later indices have finished and
\* the retention sweep has deleted one of them, and another task is waiting
C36_Witness ==
  /\ concurrency = 1
  /\ \E id \in registry, j \in Ids \ registry, k \in Ids :
       /\ id < j
       /\ tasks[id].priority = 0 /\ tasks[id].status = FAILED
       /\ tasks[j].priority = 10 /\ Finished(j)
       /\ Waiting(k)

====
